---------------------------- MODULE Spec2Model ----------------------------
(***************************************************************************)
(* Retailer scraping pipeline of ingredient_converter.py: the fetcher      *)
(* (SuperEnhancedFetcher.fetch, fetch_with_zenrows), the priority          *)
(* dispatcher (process_row_with_priority_system, driven by                 *)
(* process_csv_rows) and the all-stores dispatcher                         *)
(* (extract_aisles_from_all_stores, driven by run_enhanced_scraper).       *)
(*                                                                         *)
(* Python values are represented as follows.                               *)
(*   - A response body is a record [len, ind]: its length and whether its  *)
(*     first 2000 characters contain one of fetch's block indicators.      *)
(*     None is the body NoBody (len = -1).                                 *)
(*   - A store link is a record [kind, host]; kind "https" is a string     *)
(*     that starts with http(s)://, "other" a string that does not,        *)
(*     "empty" is None or "", and "nonstr" a truthy non-string value.      *)
(*   - A Python string made by joining breadcrumbs is the sequence of its  *)
(*     pieces; the empty sequence stands for None.                         *)
(*   - String primitives (lower(), substring test, len) are tabulated for  *)
(*     the finite vocabulary of breadcrumb texts used as extractor output. *)
(*                                                                         *)
(* A run is one of two drivers with one fetcher: process_csv_rows, which   *)
(* hands every row to the priority dispatcher (SpecCsv), or                *)
(* run_enhanced_scraper, which hands it to the all-stores dispatcher       *)
(* (SpecDb); Spec is either.  fetch is a sub-machine of two actions, one   *)
(* strategy invocation per step.  log and row_blocked are history          *)
(* variables of the row being processed; the code does not hold them.      *)
(***************************************************************************)
EXTENDS Integers, Sequences, FiniteSets, TLC

(***************************************************************************)
(* Bounds of the model.                                                    *)
(***************************************************************************)
MaxRows == 2      \* rows read from the input in one run
MaxStores == 2    \* store links in one row

(***************************************************************************)
(* Module configuration.                                                   *)
(***************************************************************************)
SCRAPE_PRIORITY ==
    << "aldi", "ocado", "morrisons", "boots", "iceland", "superdrug",
       "savers", "poundland", "bmstores", "ebay", "amazon", "wilko",
       "tesco", "asda", "sainsburys", "waitrose" >>

PHASE1_max_attempts == 2
ZENROWS_daily_limit == 1000
ZENROWS_skip_stores == {}
ZENROWS_PRIORITY_STORES == {"asda", "sainsburys", "tesco"}
SELENIUM_PROTECTED_STORES ==
    {"asda", "sainsburys", "tesco", "ocado", "waitrose", "morrisons", "poundland"}
skip_selenium_stores == {"sainsburys", "wilko", "bmstores", "savers", "poundland"}
TWO_PHASE_enable_two_phase == FALSE
ADVANCED_TOOLS_AVAILABLE == TRUE
PROBLEMATIC_STORES == {"sainsburys", "asda", "waitrose"}
EarlyStopScore == 50
MinBodyLen == 500

(***************************************************************************)
(* Store names.  RawStores are the keys that occur in the input cells;     *)
(* LowerStrip tabulates key.strip().lower() for them.                      *)
(***************************************************************************)
RawStores == {"Aldi", "Sainsbury's", "argos", "Argos"}

LowerStrip(s) ==
    CASE s = "Aldi" -> "aldi"
      [] s = "Sainsbury's" -> "sainsbury's"
      [] s = "Argos" -> "argos"
      [] OTHER -> s

\* NORMALIZED_LOOKUP: lower-cased alias -> normalized name.
NORMALIZED_LOOKUP ==
    { <<"tesco", "tesco">>, <<"tesco.com", "tesco">>,
      <<"sainsburys", "sainsburys">>, <<"sainsbury's", "sainsburys">>,
      <<"sainsburys.co.uk", "sainsburys">>,
      <<"asda", "asda">>, <<"asda.com", "asda">>,
      <<"iceland", "iceland">>, <<"iceland.co.uk", "iceland">>,
      <<"waitrose", "waitrose">>, <<"waitrose & partners", "waitrose">>,
      <<"waitrose.com", "waitrose">>,
      <<"morrisons", "morrisons">>, <<"morrison", "morrisons">>,
      <<"morrison's", "morrisons">>, <<"morrisons.com", "morrisons">>,
      <<"ocado", "ocado">>, <<"ocado.com", "ocado">>,
      <<"boots", "boots">>, <<"boots.com", "boots">>,
      <<"superdrug", "superdrug">>, <<"superdrug.com", "superdrug">>,
      <<"amazon", "amazon">>, <<"amazon.co.uk", "amazon">>,
      <<"ebay", "ebay">>, <<"ebay.co.uk", "ebay">>,
      <<"aldi", "aldi">>, <<"aldi.co.uk", "aldi">> }

normalize_store_name(store) ==
    LET k == LowerStrip(store)
    IN  IF \E p \in NORMALIZED_LOOKUP : p[1] = k
        THEN (CHOOSE p \in NORMALIZED_LOOKUP : p[1] = k)[2]
        ELSE k

Stores == { normalize_store_name(s) : s \in RawStores }

(***************************************************************************)
(* Sequence helpers.                                                       *)
(***************************************************************************)
Range(s) == { s[i] : i \in 1..Len(s) }

IndexOf(s, x) == CHOOSE i \in 1..Len(s) : s[i] = x

RECURSIVE SeqsUpTo(_, _)
SeqsUpTo(S, n) ==
    IF n = 0 THEN { <<>> }
    ELSE LET shorter == SeqsUpTo(S, n - 1)
         IN  shorter \cup { Append(q, x) : q \in { r \in shorter : Len(r) = n - 1 }, x \in S }

(***************************************************************************)
(* order_store_items: normalize every key, then a stable sort by the       *)
(* index in SCRAPE_PRIORITY, unlisted names getting len(SCRAPE_PRIORITY).  *)
(***************************************************************************)
priority_index(nrm) ==
    IF nrm \in Range(SCRAPE_PRIORITY)
    THEN IndexOf(SCRAPE_PRIORITY, nrm) - 1
    ELSE Len(SCRAPE_PRIORITY)

RECURSIVE InsertStable(_, _)
InsertStable(sorted, item) ==
    IF sorted = <<>> THEN << item >>
    ELSE IF priority_index(item.store) < priority_index(Head(sorted).store)
         THEN << item >> \o sorted
         ELSE << Head(sorted) >> \o InsertStable(Tail(sorted), item)

RECURSIVE StableSort(_)
StableSort(items) ==
    IF items = <<>> THEN <<>>
    ELSE InsertStable(StableSort(SubSeq(items, 1, Len(items) - 1)), items[Len(items)])

\* The items in dict order, without the sort.
order_store_items_unsorted(prices_dict) ==
    [ i \in 1..Len(prices_dict) |->
        [ store |-> normalize_store_name(prices_dict[i].key),
          link  |-> prices_dict[i].link ] ]

order_store_items(prices_dict) ==
    StableSort([ i \in 1..Len(prices_dict) |->
                  [ store |-> normalize_store_name(prices_dict[i].key),
                    link  |-> prices_dict[i].link ] ])

(***************************************************************************)
(* Breadcrumb texts.  Vocabulary is the set of texts the extractors        *)
(* return in the dispatcher runs; none has leading, trailing or repeated   *)
(* whitespace, so strip() and the whitespace collapse leave them as they   *)
(* are.  RawTexts adds texts that the cleaning steps change or drop.       *)
(* Strip, CollapseSpaces, Title, Lower, StrLen, HasLetter and Contains     *)
(* tabulate str.strip(), re.sub(r"\s+", " ", c), str.title(), str.lower(), *)
(* len(), re.search('[a-zA-Z]', c) and the substring test                  *)
(* `term in text.lower()` on these texts.                                  *)
(***************************************************************************)
Vocabulary ==
    {"Home", "Sale", "Recipes", "Toys", "Products", "Fresh Food", "Dairy", "Milk"}

RawTexts ==
    Vocabulary \cup {"", "  ", " Toys ", "Fresh  Food", "Fresh   Food", "home", "HOME",
                     "Shop", "Aldi", "Offers", "A", "24", "Departments",
                     "Aldi Toys"}

Strip(c) ==
    CASE c = " Toys " -> "Toys"
      [] c = "  " -> ""
      [] OTHER -> c

\* A collapse that replaces each pair of blanks by one blank, once.
CollapseSpacesOnce(c) ==
    CASE c = "Fresh  Food" -> "Fresh Food"
      [] c = "Fresh   Food" -> "Fresh  Food"
      [] OTHER -> c

CollapseSpaces(c) ==
    CASE c = "Fresh  Food" -> "Fresh Food"
      [] c = "Fresh   Food" -> "Fresh Food"
      [] OTHER -> c

Title(c) ==
    CASE c = "home" -> "Home"
      [] c = "HOME" -> "Home"
      [] OTHER -> c

HasLetter(c) == c \notin {"", "24"}

Lower(c) ==
    CASE c = "Home" -> "home"
      [] c = "Sale" -> "sale"
      [] c = "Recipes" -> "recipes"
      [] c = "Toys" -> "toys"
      [] c = "Products" -> "products"
      [] c = "Fresh Food" -> "fresh food"
      [] c = "Dairy" -> "dairy"
      [] c = "Milk" -> "milk"
      [] c = "Fresh  Food" -> "fresh  food"
      [] c = "HOME" -> "home"
      [] c = "Shop" -> "shop"
      [] c = "Aldi" -> "aldi"
      [] c = "Offers" -> "offers"
      [] c = "A" -> "a"
      [] c = "Departments" -> "departments"
      [] c = "Aldi Toys" -> "aldi toys"
      [] OTHER -> c

StrLen(c) ==
    CASE c = "Home" -> 4
      [] c = "Sale" -> 4
      [] c = "Recipes" -> 7
      [] c = "Toys" -> 4
      [] c = "Products" -> 8
      [] c = "Fresh Food" -> 10
      [] c = "Dairy" -> 5
      [] c = "Milk" -> 4
      [] c = "Fresh  Food" -> 11
      [] c = "home" -> 4
      [] c = "HOME" -> 4
      [] c = "Shop" -> 4
      [] c = "Aldi" -> 4
      [] c = "Offers" -> 6
      [] c = "A" -> 1
      [] c = "24" -> 2
      [] c = "Departments" -> 11
      [] c = "Aldi Toys" -> 9
      [] OTHER -> 0

\* <<term, text>>: term occurs in text.lower().
SubstringPairs ==
    { <<"home", "Home">>, <<"sale", "Sale">>, <<"recipes", "Recipes">>,
      <<"food", "Fresh Food">>, <<"fresh", "Fresh Food">>,
      <<"dairy", "Dairy">>, <<"milk", "Milk">>, <<"offer", "Offers">>,
      <<"food", "Fresh  Food">>, <<"fresh", "Fresh  Food">>,
      <<"aldi", "Aldi Toys">> }

Contains(term, c) == <<term, c>> \in SubstringPairs \/ term = Lower(c)

\* ' > '.join(breadcrumbs) as the sequence of its pieces.
RECURSIVE JoinCrumbs(_)
JoinCrumbs(crumbs) ==
    IF Len(crumbs) <= 1 THEN crumbs
    ELSE << Head(crumbs), " > " >> \o JoinCrumbs(Tail(crumbs))

(***************************************************************************)
(* is_valid_category_text: after strip(), length 2..100, contains a        *)
(* letter, matches no promo pattern.  The promo patterns that are plain    *)
(* words are tested as substrings; the others (with \s or %) match no      *)
(* text of RawTexts.                                                       *)
(***************************************************************************)
promo_patterns ==
    {"offer", "deal", "save", "discount", "delivery", "pass", "account",
     "login", "register", "help", "basket", "checkout", "search", "menu",
     "back", "previous"}

is_valid_category_text(text) ==
    /\ Strip(text) # ""
    /\ StrLen(Strip(text)) >= 2
    /\ StrLen(Strip(text)) <= 100
    /\ HasLetter(Strip(text))
    /\ ~ \E p \in promo_patterns : Contains(p, Strip(text))

(***************************************************************************)
(* normalize_breadcrumbs, as a left-to-right loop over the raw list with   *)
(* the accumulator `cleaned` (the set `seen` is the range of cleaned).     *)
(***************************************************************************)
generic_terms == {"home", "homepage", "shop", "browse", "all", "categories"}

\* A loop that never stops at max_levels.
AtCapNever(cleaned, max_levels) == FALSE

\* Lines 4915-4916.
AtCap(cleaned, max_levels) == Len(cleaned) >= max_levels

\* A filter that lets the first element of the result keep the store name.
StoreTermInNotFirst(store_terms, c, cleaned) ==
    cleaned # <<>> /\ \E term \in store_terms : Contains(term, c)

\* Lines 4910-4911: the text holds one of the store's names.
StoreTermIn(store_terms, c, cleaned) == \E term \in store_terms : Contains(term, c)

RECURSIVE NormalizeLoop(_, _, _, _)
NormalizeLoop(breadcrumbs, cleaned, store_terms, max_levels) ==
    IF breadcrumbs = <<>> THEN cleaned
    ELSE
      LET c0   == CollapseSpaces(Strip(Head(breadcrumbs)))
          cl   == Lower(c0)
          rest == Tail(breadcrumbs)
          skip == \/ Strip(Head(breadcrumbs)) = ""
                  \/ ~ is_valid_category_text(c0)
                  \/ (cl \in generic_terms /\ cleaned # <<>>)
                  \/ StoreTermIn(store_terms, c0, cleaned)
          c    == IF cl \in {"home", "homepage"} THEN Title(c0) ELSE c0
          next == IF skip \/ c \in Range(cleaned) THEN cleaned ELSE Append(cleaned, c)
      IN  IF AtCap(next, max_levels)
          THEN next
          ELSE NormalizeLoop(rest, next, store_terms, max_levels)

normalize_breadcrumbs(breadcrumbs, store_norm) ==
    IF breadcrumbs = <<>> THEN <<>>
    ELSE NormalizeLoop(breadcrumbs, <<>>, {store_norm}, 6)

(***************************************************************************)
(* score_breadcrumb_quality.                                               *)
(***************************************************************************)
food_categories ==
    {"food", "fresh", "chilled", "frozen", "dairy", "meat", "fish", "bakery", "produce"}
product_categories ==
    {"pastry", "bread", "milk", "cheese", "yogurt", "butter", "eggs", "vegetables", "fruit"}
health_beauty ==
    {"health", "beauty", "skincare", "haircare", "pharmacy", "vitamins", "supplements"}
household == {"household", "cleaning", "laundry", "home", "garden", "pet"}
promotional_terms ==
    {"fill your freezer", "big savings event", "organic september",
     "ocado price promise", "recipes", "coupons", "top offers", "half price",
     "wine sale", "offers", "deals", "save", "discount", "promotion", "event", "sale"}
navigation_terms == {"home", "shop", "browse", "categories", "departments", "all"}
logical_progression_patterns ==
    { <<"home", "food">>, <<"food", "dairy">>, <<"dairy", "milk">>,
      <<"fresh", "chilled">>, <<"health", "beauty">>, <<"home", "garden">> }
\* 'a > b' in the joined text, for texts without ' > ' inside: some crumb
\* ends with a and the next one starts with b.  On Vocabulary a text ends
\* or starts with a term it contains only when it equals the term, except
\* "Fresh Food", which starts with "fresh" and ends with "food".
perfect_patterns ==
    { <<"home", "fresh">>, <<"food", "dairy">>, <<"dairy", "eggs">>,
      <<"health", "beauty">>, <<"fresh", "chilled">>, <<"chilled", "dairy">>,
      <<"household", "cleaning">> }

EndsWith(c, term) == Lower(c) = term \/ (c = "Fresh Food" /\ term = "food")
StartsWith(c, term) == Lower(c) = term \/ (c = "Fresh Food" /\ term = "fresh")

Max(a, b) == IF a >= b THEN a ELSE b
Min(a, b) == IF a <= b THEN a ELSE b

\* A return statement without the clamp.
ClampNone(score) == score

\* Line 5032: max(0, min(100, score)).
Clamp(score) == Max(0, Min(100, score))

CrumbAdjust(crumb, i, store_name) ==
    IF \E promo \in promotional_terms : Contains(promo, crumb) THEN -40
    ELSE IF Lower(crumb) \in navigation_terms THEN -10
    ELSE IF i > 1 /\ Contains(store_name, crumb) THEN -15
    ELSE IF \E t \in food_categories : Contains(t, crumb) THEN 15
    ELSE IF \E t \in product_categories : Contains(t, crumb) THEN 20
    ELSE IF \E t \in health_beauty \cup household : Contains(t, crumb) THEN 10
    ELSE 0

RECURSIVE SumTo(_, _)
SumTo(f, n) == IF n = 0 THEN 0 ELSE f[n] + SumTo(f, n - 1)

score_breadcrumb_quality(breadcrumbs, store_name) ==
    IF breadcrumbs = <<>> THEN 0
    ELSE
      LET n == Len(breadcrumbs)
          lengthBonus == IF 3 <= n /\ n <= 6 THEN 25
                         ELSE IF 2 <= n /\ n <= 7 THEN 15
                         ELSE IF n > 8 THEN -20 ELSE 0
          content == SumTo([ i \in 1..n |-> CrumbAdjust(breadcrumbs[i], i, store_name) ], n)
          depth == IF n >= 6 THEN 15 ELSE IF n >= 5 THEN 20 ELSE IF n >= 4 THEN 10 ELSE 0
          progression ==
              SumTo([ i \in 1..(n - 1) |->
                        IF \E p \in logical_progression_patterns :
                              Contains(p[1], breadcrumbs[i]) /\ Contains(p[2], breadcrumbs[i + 1])
                        THEN 10 ELSE 0 ], n - 1)
          lengths == { StrLen(breadcrumbs[i]) : i \in 1..n }
          lengthProgression ==
              IF n >= 2 /\ Cardinality(lengths) > 1
                 /\ StrLen(breadcrumbs[n]) >= StrLen(breadcrumbs[1])
              THEN 10 ELSE 0
          perfect ==
              IF \E i \in 1..(n - 1) : \E p \in perfect_patterns :
                    EndsWith(breadcrumbs[i], p[1]) /\ StartsWith(breadcrumbs[i + 1], p[2])
              THEN 25 ELSE 0
          hierarchy == IF n >= 2 THEN Min(progression, 30) + lengthProgression ELSE 0
          score == 50 + lengthBonus + content + depth + hierarchy + perfect
      IN  Clamp(score)

\* Raw breadcrumb lists an extractor returns for a page (or for a URL); the
\* extractors that collect names from JSON-LD return them as found, a name
\* twice when the page has it twice (e.g. lines 7177-7198).
RawCrumbSamples ==
    { <<>>, <<"Sale", "Recipes">>, <<"Sale", "Toys">>, <<"Products">>, <<"Toys", "Toys">> }

(***************************************************************************)
(* Input rows.  A cell of the prices column either parses to a dict        *)
(* (parsed = TRUE, dict = its items in insertion order) or does not.       *)
(***************************************************************************)
\* The links a cell holds for a key: every key comes with a product URL;
\* the key "Argos" also comes with a string that is no http(s) URL and with
\* a value that is no string.
LinkKinds(k) == IF k = "Argos" THEN {"https", "other", "nonstr"} ELSE {"https"}

Entries ==
    UNION { { [ key |-> k, link |-> [ kind |-> lk, host |-> normalize_store_name(k) ] ] :
                lk \in LinkKinds(k) } : k \in RawStores }

DistinctKeys(d) == \A i, j \in 1..Len(d) : i # j => d[i].key # d[j].key

InputRows ==
    { [ parsed |-> TRUE, dict |-> d ] :
        d \in { q \in SeqsUpTo(Entries, MaxStores) : q # <<>> /\ DistinctKeys(q) } }
    \cup { [ parsed |-> FALSE, dict |-> <<>> ] }

IsHttp(link) == link.kind = "https"

(***************************************************************************)
(* Bodies and what the network answers to one request.                     *)
(***************************************************************************)
\* len: len(text); ind: the first 2000 characters hold one of the strings
\* fetch tests at line 2509; challenge: the text holds "robot check", "are
\* you a human" or "pardon the interruption", which only fetch_with_requests
\* tests (line 1598), and none of the strings of the other lists.
NoBody == [ len |-> -1, ind |-> FALSE, challenge |-> FALSE ]
Body(n, i) == [ len |-> n, ind |-> i, challenge |-> FALSE ]
ChallengeBody(n) == [ len |-> n, ind |-> FALSE, challenge |-> TRUE ]
Truthy(h) == h.len > 0

\* error: exception or a status other than 200/403/429/503; status403: one
\* of 403/429/503; blockpage: 200 whose text has a block indicator the
\* strategy itself tests; page: 200 with the given text.
Responses ==
    { [ kind |-> "error", body |-> NoBody ],
      [ kind |-> "status403", body |-> NoBody ],
      [ kind |-> "blockpage", body |-> NoBody ],
      [ kind |-> "page", body |-> Body(500, FALSE) ],
      [ kind |-> "page", body |-> Body(501, FALSE) ],
      [ kind |-> "page", body |-> Body(501, TRUE) ] }

ZenResponses ==
    { [ kind |-> "error", body |-> NoBody ],
      [ kind |-> "status422", body |-> NoBody ],
      [ kind |-> "status500", body |-> NoBody ],
      [ kind |-> "page", body |-> Body(1000, FALSE) ],
      [ kind |-> "page", body |-> Body(1001, FALSE) ] }

(***************************************************************************)
(* Result records.                                                         *)
(***************************************************************************)
FailedResult(debug) ==
    [ status |-> "failed", category |-> <<>>, score |-> 0, store_used |-> "None",
      method |-> "None", attempt |-> 0, stores_attempted |-> 0, debug |-> debug ]

SuccessResult(crumbs, score, store, method, attempt, attempted) ==
    [ status |-> "success", category |-> JoinCrumbs(crumbs), score |-> score,
      store_used |-> store, method |-> method, attempt |-> attempt,
      stores_attempted |-> attempted, debug |-> method ]

StoreResult(aisle, status, score, link) ==
    [ aisle |-> aisle, status |-> status, score |-> score, url |-> link ]

\* d[key] = val on a dict kept as a sequence of <<key, value>> in insertion order.
DictSet(d, key, val) ==
    IF \E i \in 1..Len(d) : d[i][1] = key
    THEN [ i \in 1..Len(d) |-> IF d[i][1] = key THEN << key, val >> ELSE d[i] ]
    ELSE Append(d, << key, val >>)

(***************************************************************************)
(* State.                                                                  *)
(***************************************************************************)
VARIABLES
    mode,               \* "csv": process_csv_rows; "db": run_enhanced_scraper
    zen_api_key,        \* ZENROWS_CONFIG['api_key'] is set
    rows_read,          \* rows taken from the input so far
    pc,                 \* position of the run
    prices_dict,        \* the current row's parsed cell
    ordered_stores,     \* the dispatcher's ordered_stores
    idx,                \* position of the dispatcher's loop in ordered_stores
    stores_attempted,
    best_result,
    row_result,         \* what the row's processing returned / recorded
    html,               \* what the last fetch returned
    BeautifulSoup_bound,\* the dispatcher's local name BeautifulSoup is bound
    f,                  \* locals of the fetch call in progress
    SESSION_CACHE,
    blocked_stores,
    blocked_urls,
    last_request_time,
    clock,              \* time.time(), in ticks
    quota_exhausted,
    current_usage,
    all_results,        \* extract_aisles_from_all_stores: all_results
    flat_export_rows,
    log,                \* history: calls the dispatcher made for the current row
    row_blocked,        \* history: stores recorded blocked while this row was processed
    callers,            \* locals of the threads that are inside fetch
    zen_last,           \* history: the last call of fetch_with_zenrows
    proxy_configs,      \* AdvancedProxyManager: number of configured proxies
    failure_count,
    last_failure_time,
    success_count,
    current_index,
    total_requests,
    lease,              \* what get_working_proxy returned last
    store_sessions,     \* store -> identity of its requests.Session
    request_count,
    served,             \* history: times the store's current session was returned
    crumb_run,          \* a breadcrumb list on its way through normalize and score
    single,             \* locals of attempt_single_store_scraping and what it returned
    fetch_hist,         \* history: the strategy invocations of one call of fetch
    req,                \* locals of a call of fetch_with_requests and its history
    session_callers,    \* locals of the threads that are inside get_store_session
    session_hist,       \* history: calls begun, sessions made and how often each was returned
    key_manager,        \* process_vineet_sheet: the APIKeyManager, the rows, the failover loop
    conversion,         \* get_conversion: key_index, the rows, the retry loop
    url_run             \* process_single_url: arguments, what it returned or raised

vars == << mode, zen_api_key, rows_read, pc, prices_dict, ordered_stores, idx,
           stores_attempted, best_result, row_result, html, BeautifulSoup_bound,
           f, SESSION_CACHE,
           blocked_stores, blocked_urls, last_request_time, clock,
           quota_exhausted, current_usage, all_results, flat_export_rows,
           log, row_blocked, callers, zen_last,
           proxy_configs, failure_count, last_failure_time, success_count,
           current_index, total_requests, lease,
           store_sessions, request_count, served, crumb_run, single, fetch_hist,
           req, session_callers, session_hist, key_manager, conversion,
           url_run >>

fetcherVars == << SESSION_CACHE, blocked_stores, blocked_urls, last_request_time, clock >>
zenVars == << quota_exhausted, current_usage >>
dispatchVars == << prices_dict, ordered_stores, idx, stores_attempted, best_result,
                   row_result, BeautifulSoup_bound >>
dbVars == << all_results, flat_export_rows >>
configVars == << mode, zen_api_key >>
proxyVars == << proxy_configs, failure_count, last_failure_time, success_count,
               current_index, total_requests, lease >>
sessionVars == << store_sessions, request_count, served >>
crumbVars == << crumb_run, single >>
keyVars == << key_manager, conversion >>
lateVars == << req, session_callers, session_hist, keyVars, url_run >>
otherVars == << callers, zen_last, proxyVars, sessionVars, crumbVars, lateVars >>
auxVars == << otherVars, fetch_hist >>

NoFetch == [ url |-> [ kind |-> "empty", host |-> "None" ], store |-> "None",
             attempt |-> 0, mi |-> 0, methods |-> <<>>, ret |-> "None" ]

NoResult == FailedResult("none")

\* One entry of the history: op "fetch" (fetch is called), "fetched" (it
\* returned a body of length len), "zenrows" (fetch_with_zenrows is called),
\* "rendered" (it returned a body of length len) and "extract" (an extractor
\* is called on a body of length len and the outcome scored score, -1 when
\* it gave no breadcrumbs); pos is the position in ordered_stores.
Event(op, pos, store, len, score) ==
    [ op |-> op, pos |-> pos, store |-> store, len |-> len, score |-> score ]

\* The values the state of the other components has when a run starts.
NoZenCall == [ seq |-> 0, sent |-> FALSE, body |-> NoBody, exhausted_before |-> FALSE,
               unanswered |-> 0 ]
NoLease == [ seq |-> 0, proxy |-> -1, available |-> {} ]
NoCrumbRun == [ raw |-> <<>>, store |-> "None", stage |-> "idle",
                cleaned |-> <<>>, again |-> <<>>, score |-> 0 ]
SingleOutcome(success, breadcrumbs, score, method) ==
    [ success |-> success, breadcrumbs |-> breadcrumbs, score |-> score, method |-> method ]
NoSingle == [ store_norm |-> "None", stage |-> "idle",
              result |-> SingleOutcome(FALSE, <<>>, 0, "none") ]
\* count[i]: invocations of the i-th strategy of the list; method, resp: the
\* last strategy invoked and the response it got; all_block: every response
\* so far had a block indicator (a 403, 429 or 503 status or a string).
NoResponse == [ kind |-> "none", body |-> NoBody ]
NewHist(methods) ==
    [ count |-> [ i \in 1..Len(methods) |-> 0 ], method |-> "None", resp |-> NoResponse,
      all_block |-> TRUE ]
NoHist == NewHist(<<>>)
\* store: store_norm; retry: the loop variable; proxy_dict: the proxy in use,
\* -1 for None; leased: the proxy get_working_proxy handed out; sent: how
\* each request for the product URL was sent; out: how the last request
\* ended; warmup: a homepage request went out first; reported: the
\* report_failure calls made; failures_before: the proxy's failure count
\* when the loop began.
NoRequestsCall == [ stage |-> "idle", store |-> "None", retry |-> 0, proxy_dict |-> -1,
                    leased |-> -1, sent |-> <<>>, out |-> "none", warmup |-> FALSE,
                    reported |-> 0, failures_before |-> 0, returned |-> NoBody ]

NoSessionCallers == <<>>
\* calls: calls of get_store_session begun; returned[i]: how often the i-th
\* session object made was returned; raised: calls ended by a KeyError.
NoSessionHist == [ calls |-> 0, returned |-> <<>>, raised |-> 0 ]
\* sent: toggles with every request; key_index, response: the last request
NoKeyManager == [ stage |-> "idle", rows_left |-> 0, exhausted_keys |-> {},
                  available_keys |-> <<>>, attempt |-> 0, sent |-> 0, api_key |-> "none",
                  key_index |-> -1,
                  response |-> "none", conversion_status |-> "none" ]
NoConversion == [ stage |-> "idle", rows_left |-> 0, key_index |-> 0, success |-> FALSE,
                  sent |-> 0, response |-> "none", results |-> <<>> ]

UrlOutcome(store_name, success, score, method, processing_type) ==
    [ store_name |-> store_name, success |-> success, score |-> score, method |-> method,
      processing_type |-> processing_type ]
\* attempted: attempt_single_store_scraping was called; raised: the exception
\* the call ended with
NoUrlRun == [ stage |-> "idle", url |-> "none", store_name |-> "None", attempted |-> FALSE,
              raised |-> "None", outcome |-> UrlOutcome("None", FALSE, 0, "none", "none") ]

ConcIdle == callers = <<>>
ZenIdle == zen_last = NoZenCall
ProxyIdle ==
    /\ proxy_configs = 0
    /\ failure_count = <<>>
    /\ last_failure_time = <<>>
    /\ success_count = <<>>
    /\ current_index = 0
    /\ total_requests = 0
    /\ lease = NoLease
SessionIdle ==
    /\ store_sessions = {}
    /\ request_count = {}
    /\ served = {}
CrumbIdle ==
    /\ crumb_run = NoCrumbRun
    /\ single = NoSingle
HistIdle == fetch_hist = NoHist
KeysIdle == key_manager = NoKeyManager /\ conversion = NoConversion

LateIdle ==
    /\ req = NoRequestsCall
    /\ session_callers = NoSessionCallers
    /\ session_hist = NoSessionHist
    /\ KeysIdle
    /\ url_run = NoUrlRun

\* The drivers, dispatchers and fetcher before the first row.
DispatchInit ==
    /\ mode \in {"csv", "db"}
    /\ zen_api_key \in (IF mode = "csv" THEN BOOLEAN ELSE {FALSE})
    /\ rows_read = 0
    /\ pc = "next_row"
    /\ prices_dict = <<>>
    /\ ordered_stores = <<>>
    /\ idx = 0
    /\ stores_attempted = 0
    /\ best_result = NoResult
    /\ row_result = NoResult
    /\ html = NoBody
    /\ BeautifulSoup_bound = FALSE
    /\ f = NoFetch
    /\ SESSION_CACHE = {}
    /\ blocked_stores = {}
    /\ blocked_urls = {}
    /\ last_request_time = {}
    /\ clock = 1
    /\ quota_exhausted = FALSE
    /\ current_usage = 0
    /\ all_results = <<>>
    /\ flat_export_rows = <<>>
    /\ log = <<>>
    /\ row_blocked = {}

Init == DispatchInit /\ ConcIdle /\ ZenIdle /\ ProxyIdle /\ SessionIdle /\ CrumbIdle /\ HistIdle /\ LateIdle

(***************************************************************************)
(* SuperEnhancedFetcher.                                                   *)
(* SESSION_CACHE and last_request_time are dicts, kept as sets of          *)
(* <<key, value>> pairs with one pair per key.                             *)
(***************************************************************************)
InDict(d, k) == \E p \in d : p[1] = k
DictGet(d, k) == (CHOOSE p \in d : p[1] = k)[2]
DictPut(d, k, v) == { p \in d : p[1] # k } \cup { << k, v >> }

\* A list that gets the browser for every protected store.
phase1_methods_browser_unskipped(store_norm) ==
    IF store_norm \in SELENIUM_PROTECTED_STORES
    THEN << "CloudScraper", "Requests", "Selenium" >>
    ELSE << "CloudScraper", "Requests" >>

\* The list phase1_methods that fetch builds for a store.
phase1_methods(store_norm) ==
    LET base == << "CloudScraper", "Requests" >>
        special ==
            CASE store_norm = "tesco" ->
                   << "TescoAdvanced" >>
                   \o (IF ADVANCED_TOOLS_AVAILABLE THEN << "TescoSelenium" >> ELSE <<>>) \o base
              [] store_norm = "ocado" ->
                   << "OcadoUltra" >>
                   \o (IF ADVANCED_TOOLS_AVAILABLE THEN << "OcadoSelenium" >> ELSE <<>>) \o base
              [] store_norm = "morrisons" ->
                   << "MorrisonsAdvanced" >>
                   \o (IF ADVANCED_TOOLS_AVAILABLE THEN << "MorrisonsSelenium" >> ELSE <<>>) \o base
              [] store_norm = "asda" ->
                   << "AsdaAdvanced" >>
                   \o (IF ADVANCED_TOOLS_AVAILABLE THEN << "AsdaSelenium" >> ELSE <<>>) \o base
              [] OTHER -> base
    IN  IF /\ ADVANCED_TOOLS_AVAILABLE
           /\ store_norm \in SELENIUM_PROTECTED_STORES
           /\ store_norm \notin skip_selenium_stores
        THEN Append(special, "Selenium")
        ELSE special

\* fetch_with_cloudscraper and fetch_with_requests record the store as
\* blocked themselves; the advanced and Selenium strategies never do.
RecordsBlocked(method) == method \in {"CloudScraper", "Requests"}

\* What a strategy returns to fetch for a response.
StrategyReturn(method, resp) ==
    IF resp.kind # "page" THEN NoBody
    ELSE IF method = "Requests" /\ resp.body.challenge THEN NoBody
    ELSE IF RecordsBlocked(method) THEN resp.body
    ELSE IF resp.body.len > MinBodyLen THEN resp.body ELSE NoBody

\* Whether the strategy itself calls _record_blocked for a response.
StrategyBlocked(method, resp) ==
    /\ RecordsBlocked(method)
    /\ \/ resp.kind \in {"status403", "blockpage"}
       \/ method = "Requests" /\ resp.kind = "page" /\ resp.body.challenge

\* fetch's validity check of what a strategy returned.
FetchLongEnough(h) == Truthy(h) /\ h.len > MinBodyLen

\* A fetch that never finds its URL in the cache.
CacheMiss(url) == FALSE

\* Line 2424: url in SESSION_CACHE.
CacheHit(url) == InDict(SESSION_CACHE, url)

\* fetch, lines 2424-2431: cache lookup, else rate limit and strategy list.
FetchEnterBody ==
    /\ pc = "fetch"
    /\ IF CacheHit(f.url)
       THEN /\ html' = DictGet(SESSION_CACHE, f.url)
            /\ pc' = f.ret
            /\ f' = NoFetch
            /\ UNCHANGED << last_request_time, clock >>
       ELSE /\ last_request_time' = DictPut(last_request_time, f.store, clock)
            /\ clock' = clock + 1
            /\ f' = [ f EXCEPT !.attempt = 0, !.mi = 1, !.methods = phase1_methods(f.store) ]
            /\ pc' = "strategy"
            /\ UNCHANGED html
    /\ UNCHANGED << SESSION_CACHE, blocked_stores, blocked_urls, row_blocked >>
    /\ UNCHANGED << configVars, rows_read, dispatchVars, zenVars, dbVars, log >>

FetchEnter == FetchEnterBody /\ UNCHANGED auxVars

\* One pass of the inner loop of fetch (lines 2491-2523) and, after the
\* last strategy of the last attempt, the negative cache entry (2558-2560).
FetchStrategyBody(resp) ==
    /\ pc = "strategy"
    /\  LET method   == f.methods[f.mi]
            got      == StrategyReturn(method, resp)
            accepted == FetchLongEnough(got) /\ ~ got.ind
            blocked  == StrategyBlocked(method, resp) \/ (FetchLongEnough(got) /\ got.ind)
            lastOne  == f.mi = Len(f.methods) /\ f.attempt + 1 >= PHASE1_max_attempts
        IN  /\ blocked_stores' = IF blocked THEN blocked_stores \cup {f.store} ELSE blocked_stores
            /\ blocked_urls' = IF blocked THEN blocked_urls \cup {f.url} ELSE blocked_urls
            /\ row_blocked' = IF blocked THEN row_blocked \cup {f.store} ELSE row_blocked
            /\ IF accepted
               THEN /\ SESSION_CACHE' = DictPut(SESSION_CACHE, f.url, got)
                    /\ html' = got
                    /\ pc' = f.ret
                    /\ f' = NoFetch
               ELSE IF lastOne
               THEN /\ ~ TWO_PHASE_enable_two_phase
                    /\ SESSION_CACHE' = DictPut(SESSION_CACHE, f.url, NoBody)
                    /\ html' = NoBody
                    /\ pc' = f.ret
                    /\ f' = NoFetch
               ELSE /\ f' = IF f.mi < Len(f.methods)
                            THEN [ f EXCEPT !.mi = f.mi + 1 ]
                            ELSE [ f EXCEPT !.mi = 1, !.attempt = f.attempt + 1 ]
                    /\ UNCHANGED << SESSION_CACHE, html, pc >>
    /\ UNCHANGED << last_request_time, clock >>
    /\ UNCHANGED << configVars, rows_read, dispatchVars, zenVars, dbVars, log >>

FetchStrategy == (\E resp \in Responses : FetchStrategyBody(resp)) /\ UNCHANGED auxVars

(***************************************************************************)
(* fetch_with_zenrows, as an operator from the state and the renderer's    *)
(* response to <<returned body, quota_exhausted, current_usage, sent>>.    *)
(***************************************************************************)
\* A renderer call that does not look at the quota flag first.
fetch_with_zenrows_unguarded(store_norm, resp) ==
    IF ~ zen_api_key
    THEN << NoBody, quota_exhausted, current_usage, FALSE >>
    ELSE IF current_usage >= ZENROWS_daily_limit
    THEN << NoBody, TRUE, current_usage, FALSE >>
    ELSE IF resp.kind = "error"
    THEN << NoBody, quota_exhausted, current_usage, TRUE >>
    ELSE IF resp.kind = "page"
    THEN << IF Truthy(resp.body) /\ resp.body.len > 1000 THEN resp.body ELSE NoBody,
            quota_exhausted, current_usage + 1, TRUE >>
    ELSE IF resp.kind = "status422"
    THEN << NoBody, TRUE, current_usage + 1, TRUE >>
    ELSE << NoBody, quota_exhausted, current_usage + 1, TRUE >>

fetch_with_zenrows(store_norm, resp) ==
    IF quota_exhausted \/ store_norm \in ZENROWS_skip_stores
    THEN << NoBody, quota_exhausted, current_usage, FALSE >>
    ELSE IF ~ zen_api_key
    THEN << NoBody, quota_exhausted, current_usage, FALSE >>
    ELSE IF current_usage >= ZENROWS_daily_limit
    THEN << NoBody, TRUE, current_usage, FALSE >>
    ELSE IF resp.kind = "error"
    THEN << NoBody, quota_exhausted, current_usage, TRUE >>
    ELSE IF resp.kind = "page"
    THEN << IF Truthy(resp.body) /\ resp.body.len > 1000 THEN resp.body ELSE NoBody,
            quota_exhausted, current_usage + 1, TRUE >>
    ELSE IF resp.kind = "status422"
    THEN << NoBody, TRUE, current_usage + 1, TRUE >>
    ELSE << NoBody, quota_exhausted, current_usage + 1, TRUE >>

(***************************************************************************)
(* process_csv_rows and process_row_with_priority_system.                  *)
(***************************************************************************)
ValidBody(h) == Truthy(h) /\ h.len >= MinBodyLen

\* The fallback tried for every store.
url_fallback_every_store == Stores

url_fallback_stores == {"superdrug", "savers", "aldi"}

\* The test with the bound excluded.
EarlyStopAbove(score) == score > EarlyStopScore

\* Line 5159: the early-stop test.
EarlyStop(score) == score >= EarlyStopScore

\* Lines 5178: whether Phase 2 runs at all.
Phase2Runs == best_result.score < EarlyStopScore /\ blocked_stores # {}

\* No filter at all.
Phase2EligibleAny(store_norm) == TRUE

\* Line 5182: the stores Phase 2 does not skip.
Phase2Eligible(store_norm) == store_norm \in blocked_stores

\* The row result process_csv_rows records when processing raised.
ExceptionResult == [ FailedResult("Exception") EXCEPT !.method = "exception" ]

\* process_csv_rows, lines 5469-5511: take the next row; a cell that does
\* not parse (or has no store links) is skipped, otherwise
\* process_row_with_priority_system starts (lines 5055-5071).
ReadRowCsv ==
    /\ mode = "csv"
    /\ pc = "next_row"
    /\ rows_read < MaxRows
    /\ \E row \in InputRows :
        /\ rows_read' = rows_read + 1
        /\ log' = <<>>
        /\ row_blocked' = {}
        /\ row_result' = NoResult
        /\ stores_attempted' = 0
        /\ BeautifulSoup_bound' = FALSE
        /\ IF ~ row.parsed \/ row.dict = <<>>
           THEN /\ prices_dict' = <<>>
                /\ ordered_stores' = <<>>
                /\ idx' = 0
                /\ best_result' = NoResult
                /\ pc' = "next_row"
           ELSE /\ prices_dict' = row.dict
                /\ ordered_stores' = order_store_items(row.dict)
                /\ idx' = 1
                /\ best_result' = FailedResult("no_successful_extraction")
                /\ pc' = "phase1"
    /\ UNCHANGED << configVars, html, f, fetcherVars, zenVars, dbVars >>
    /\ UNCHANGED auxVars

\* Head of the Phase 1 loop (lines 5074-5087) and, when the loop is over,
\* the decision whether Phase 2 runs (lines 5172-5179, 5221-5229).
P1Step ==
    /\ pc = "phase1"
    /\ IF idx > Len(ordered_stores)
       THEN /\ IF Phase2Runs
               THEN /\ pc' = "phase2"
                    /\ idx' = 1
                    /\ UNCHANGED row_result
               ELSE /\ pc' = "next_row"
                    /\ row_result' = [ best_result EXCEPT !.stores_attempted = stores_attempted ]
                    /\ UNCHANGED idx
            /\ UNCHANGED << stores_attempted, f, log >>
       ELSE LET e == ordered_stores[idx]
            IN  IF e.link.kind = "nonstr"
                THEN \* url.startswith raises outside the try: the row ends in
                     \* the except clause of process_csv_rows.
                     /\ pc' = "next_row"
                     /\ row_result' = ExceptionResult
                     /\ UNCHANGED << idx, stores_attempted, f, log >>
                ELSE IF ~ IsHttp(e.link)
                THEN /\ idx' = idx + 1
                     /\ UNCHANGED << pc, row_result, stores_attempted, f, log >>
                ELSE /\ stores_attempted' = stores_attempted + 1
                     /\ f' = [ NoFetch EXCEPT !.url = e.link, !.store = e.store, !.ret = "p1_after" ]
                     /\ log' = Append(log, Event("fetch", idx, e.store, -1, -1))
                     /\ pc' = "fetch"
                     /\ UNCHANGED << idx, row_result >>
    /\ UNCHANGED << prices_dict, ordered_stores, best_result, html, BeautifulSoup_bound >>
    /\ UNCHANGED << configVars, rows_read, fetcherVars, zenVars, dbVars, row_blocked >>
    /\ UNCHANGED auxVars

\* Body of the Phase 1 loop after fetch returned (lines 5089-5170).
P1After ==
    /\ pc = "p1_after"
    /\ LET e == ordered_stores[idx]
           store_norm == e.store
           fetched == Event("fetched", idx, store_norm, html.len, -1)
       IN  IF ~ ValidBody(html)
           THEN IF store_norm \in url_fallback_stores
                THEN \* lines 5093-5125: the store's extractor on an empty document
                     \E crumbs \in RawCrumbSamples :
                       LET score == score_breadcrumb_quality(crumbs, store_norm)
                       IN  /\ BeautifulSoup_bound' = TRUE
                           /\ log' = log \o << fetched,
                                               Event("extract", idx, store_norm, html.len,
                                                     IF crumbs # <<>> THEN score ELSE -1) >>
                           /\ IF crumbs # <<>>
                              THEN /\ row_result' =
                                        SuccessResult(crumbs, score, store_norm,
                                                      "url_fallback", 1, stores_attempted)
                                   /\ pc' = "next_row"
                                   /\ UNCHANGED << idx, best_result >>
                              ELSE /\ idx' = idx + 1
                                   /\ pc' = "phase1"
                                   /\ UNCHANGED << row_result, best_result >>
                ELSE /\ log' = Append(log, fetched)
                     /\ idx' = idx + 1
                     /\ pc' = "phase1"
                     /\ UNCHANGED << row_result, best_result, BeautifulSoup_bound >>
           ELSE /\ BeautifulSoup_bound' = TRUE
                /\ \/ \E raw \in RawCrumbSamples :
                        LET crumbs == normalize_breadcrumbs(raw, store_norm)
                            score == score_breadcrumb_quality(crumbs, store_norm)
                            current_result ==
                                SuccessResult(crumbs, score, store_norm, "extract", 1, stores_attempted)
                        IN  /\ log' = log \o << fetched,
                                                Event("extract", idx, store_norm, html.len,
                                                      IF crumbs # <<>> THEN score ELSE -1) >>
                            /\ IF crumbs # <<>> /\ EarlyStop(score)
                               THEN /\ row_result' = current_result
                                    /\ pc' = "next_row"
                                    /\ UNCHANGED << idx, best_result >>
                               ELSE /\ best_result' =
                                         IF crumbs # <<>> /\ score > best_result.score
                                         THEN current_result ELSE best_result
                                    /\ idx' = idx + 1
                                    /\ pc' = "phase1"
                                    /\ UNCHANGED row_result
                   \/ \* parsing or extraction raises: the except clause at 5168
                      /\ log' = log \o << fetched,
                                          Event("extract", idx, store_norm, html.len, -1) >>
                      /\ idx' = idx + 1
                      /\ pc' = "phase1"
                      /\ UNCHANGED << row_result, best_result >>
    /\ UNCHANGED << prices_dict, ordered_stores, stores_attempted, html, f >>
    /\ UNCHANGED << configVars, rows_read, fetcherVars, zenVars, dbVars, row_blocked >>
    /\ UNCHANGED auxVars

\* One iteration of the Phase 2 loop (lines 5181-5219), and the return of
\* best_result when the loop is over (lines 5221-5229).  BeautifulSoup is a
\* local name of the function, bound by the imports at lines 5096 and 5130
\* only: used unbound at 5194/5196 it raises, and the row ends in the
\* except clause of process_csv_rows.
P2Step ==
    /\ pc = "phase2"
    /\ IF idx > Len(ordered_stores)
       THEN /\ pc' = "next_row"
            /\ row_result' = [ best_result EXCEPT !.stores_attempted = stores_attempted ]
            /\ UNCHANGED << idx, best_result, log, zenVars >>
       ELSE LET e == ordered_stores[idx]
                store_norm == e.store
            IN  IF ~ Phase2Eligible(store_norm)
                THEN /\ idx' = idx + 1
                     /\ UNCHANGED << pc, row_result, best_result, log, zenVars >>
                ELSE IF e.link.kind = "nonstr"
                THEN /\ pc' = "next_row"
                     /\ row_result' = ExceptionResult
                     /\ UNCHANGED << idx, best_result, log, zenVars >>
                ELSE IF ~ IsHttp(e.link)
                THEN /\ idx' = idx + 1
                     /\ UNCHANGED << pc, row_result, best_result, log, zenVars >>
                ELSE \E resp \in ZenResponses :
                       LET z == fetch_with_zenrows(store_norm, resp)
                           body == z[1]
                           usable == Truthy(body) /\ body.len > MinBodyLen
                           called == << Event("zenrows", idx, store_norm, -1, -1),
                                        Event("rendered", idx, store_norm, body.len, -1) >>
                       IN  /\ quota_exhausted' = z[2]
                           /\ current_usage' = z[3]
                           /\ IF ~ usable
                              THEN /\ log' = log \o called
                                   /\ idx' = idx + 1
                                   /\ UNCHANGED << pc, row_result, best_result >>
                              ELSE IF ~ BeautifulSoup_bound
                              THEN /\ log' = log \o called
                                   /\ pc' = "next_row"
                                   /\ row_result' = ExceptionResult
                                   /\ UNCHANGED << idx, best_result >>
                              ELSE \/ \E crumbs \in RawCrumbSamples :
                                        LET score == score_breadcrumb_quality(crumbs, store_norm)
                                            current_result ==
                                                SuccessResult(crumbs, score, store_norm,
                                                              "zenrows", 2, stores_attempted)
                                        IN  /\ log' = Append(log \o called,
                                                        Event("extract", idx, store_norm, body.len,
                                                              IF crumbs # <<>> THEN score ELSE -1))
                                            /\ IF crumbs # <<>> /\ EarlyStop(score)
                                               THEN /\ row_result' = current_result
                                                    /\ pc' = "next_row"
                                                    /\ UNCHANGED << idx, best_result >>
                                               ELSE /\ best_result' =
                                                         IF crumbs # <<>> /\ score > best_result.score
                                                         THEN current_result ELSE best_result
                                                    /\ idx' = idx + 1
                                                    /\ UNCHANGED << pc, row_result >>
                                   \/ \* extraction raises: lines 5191-5198 are in no
                                      \* try, the row ends in process_csv_rows
                                      /\ log' = Append(log \o called,
                                                       Event("extract", idx, store_norm, body.len, -1))
                                      /\ pc' = "next_row"
                                      /\ row_result' = ExceptionResult
                                      /\ UNCHANGED << idx, best_result >>
    /\ UNCHANGED << prices_dict, ordered_stores, stores_attempted, html, f, BeautifulSoup_bound >>
    /\ UNCHANGED << configVars, rows_read, fetcherVars, dbVars, row_blocked >>
    /\ UNCHANGED auxVars

\* The input has no more rows.
Finish ==
    /\ pc = "next_row"
    /\ pc' = "finished"
    /\ UNCHANGED << configVars, rows_read, dispatchVars, html, f, fetcherVars,
                    zenVars, dbVars, log, row_blocked >>
    /\ UNCHANGED auxVars

NextCsv == ReadRowCsv \/ P1Step \/ P1After \/ P2Step \/ FetchEnter \/ FetchStrategy \/ Finish

\* A run of process_csv_rows.
InitCsv == Init /\ mode = "csv"

SpecCsv == InitCsv /\ [][NextCsv]_vars

(***************************************************************************)
(* run_enhanced_scraper and extract_aisles_from_all_stores.                *)
(***************************************************************************)
\* The inference tried for every store.
ea_fallback_every_store == Stores

ea_fallback_stores == {"superdrug", "savers", "aldi", "amazon"}

SkippedResult(link) == StoreResult(<<>>, "skipped_problematic_store", 0, link)

\* No store is skipped.
IsProblematicNever(store_norm) == FALSE

\* Lines 5641 and 5666: the test that skips a store.
IsProblematic(store_norm) == store_norm \in PROBLEMATIC_STORES

\* First item of the dict whose key normalizes to nrm, as a sequence of
\* at most one element.
FirstMatch(d, nrm) ==
    LET hits == { i \in 1..Len(d) : normalize_store_name(d[i].key) = nrm }
    IN  IF hits = {} THEN <<>>
        ELSE << d[CHOOSE i \in hits : \A j \in hits : i <= j] >>

\* Lines 5632-5657: walk SCRAPE_PRIORITY; a problematic store present in
\* the dict gets its skipped result, any other store present is queued.
RECURSIVE PriorityPass(_, _, _, _)
PriorityPass(d, k, ordered, results) ==
    IF k > Len(SCRAPE_PRIORITY) THEN << ordered, results >>
    ELSE LET priority_norm == normalize_store_name(SCRAPE_PRIORITY[k])
             m == FirstMatch(d, priority_norm)
         IN  IF IsProblematic(priority_norm)
             THEN PriorityPass(d, k + 1, ordered,
                               IF m = <<>> THEN results
                               ELSE DictSet(results, priority_norm, SkippedResult(m[1].link)))
             ELSE PriorityPass(d, k + 1, ordered \o m, results)

\* Lines 5659-5675: the items not queued by the first pass, in dict order;
\* processed_stores is computed once, before the loop.
RECURSIVE RemainingPass(_, _, _, _, _)
RemainingPass(d, i, processed_stores, ordered, results) ==
    IF i > Len(d) THEN << ordered, results >>
    ELSE LET store_norm == normalize_store_name(d[i].key)
         IN  IF store_norm \in processed_stores
             THEN RemainingPass(d, i + 1, processed_stores, ordered, results)
             ELSE IF IsProblematic(store_norm)
             THEN RemainingPass(d, i + 1, processed_stores, ordered,
                                DictSet(results, store_norm, SkippedResult(d[i].link)))
             ELSE RemainingPass(d, i + 1, processed_stores, Append(ordered, d[i]), results)

\* <<ordered_stores, all_results>> when the processing loop starts.
EAOrder(d) ==
    LET p1 == PriorityPass(d, 1, <<>>, <<>>)
        processed_stores == { normalize_store_name(p1[1][i].key) : i \in 1..Len(p1[1]) }
    IN  RemainingPass(d, 1, processed_stores, p1[1], p1[2])

\* Lines 8132-8159: the best successful store, by (score, -priority), the
\* first such store in dict order on a tie.
store_priority(x) ==
    IF x \in Range(SCRAPE_PRIORITY) THEN IndexOf(SCRAPE_PRIORITY, x) - 1 ELSE 999

BestKeyLess(a, b) ==
    \/ a[2].score < b[2].score
    \/ (a[2].score = b[2].score /\ store_priority(a[1]) > store_priority(b[1]))

BestOfAll(results) ==
    LET ok == { i \in 1..Len(results) :
                  results[i][2].status = "success" /\ results[i][2].aisle # <<>> }
    IN  IF ok = {} THEN FailedResult("no_successful_extractions")
        ELSE LET b == CHOOSE i \in ok :
                         /\ \A j \in ok : ~ BestKeyLess(results[i], results[j])
                         /\ \A j \in ok : j < i => BestKeyLess(results[j], results[i])
             IN  [ status |-> "success", category |-> results[b][2].aisle,
                   score |-> results[b][2].score, store_used |-> results[b][1],
                   method |-> "all_stores", attempt |-> 1,
                   stores_attempted |-> Len(results), debug |-> "all_stores" ]

\* The aisle field copied whatever the status.
FlatAisleRaw(store_result) == store_result.aisle

\* Line 8205: the aisle of a flat record.
FlatAisle(store_result) ==
    IF store_result.status = "success" /\ store_result.aisle # <<>>
    THEN store_result.aisle ELSE << "FAILED" >>

\* Lines 8198-8207: one flat record per entry of all_store_results.
FlatRows(product_code, results) ==
    [ i \in 1..Len(results) |->
        [ product_code |-> product_code,
          Store |-> results[i][1],
          Store_link |-> results[i][2].url,
          aisle |-> FlatAisle(results[i][2]) ] ]

\* run_enhanced_scraper, lines 8024-8109, and the ordering part of
\* extract_aisles_from_all_stores (lines 5622-5675).  A cell that does not
\* parse holds no URL the recovery branch (8039-8100) looks for.
ReadRowDb ==
    /\ mode = "db"
    /\ pc = "next_row"
    /\ rows_read < MaxRows
    /\ \E row \in InputRows :
        /\ rows_read' = rows_read + 1
        /\ log' = <<>>
        /\ row_blocked' = {}
        /\ IF ~ row.parsed \/ row.dict = <<>>
           THEN /\ prices_dict' = <<>>
                /\ ordered_stores' = <<>>
                /\ all_results' = <<>>
                /\ idx' = 0
                /\ row_result' = FailedResult("no_prices_data")
                /\ pc' = "next_row"
           ELSE /\ prices_dict' = row.dict
                /\ ordered_stores' = EAOrder(row.dict)[1]
                /\ all_results' = EAOrder(row.dict)[2]
                /\ idx' = 1
                /\ row_result' = NoResult
                /\ pc' = "all_stores"
    /\ UNCHANGED << configVars, stores_attempted, best_result, html, f,
                    BeautifulSoup_bound, fetcherVars, zenVars, flat_export_rows >>
    /\ UNCHANGED auxVars

\* Head of the processing loop (lines 5678-5706); when the loop is over,
\* the rest of the row in run_enhanced_scraper (lines 8111-8212).
EAStep ==
    /\ pc = "all_stores"
    /\ IF idx > Len(ordered_stores)
       THEN /\ row_result' = BestOfAll(all_results)
            /\ flat_export_rows' = flat_export_rows \o FlatRows(rows_read, all_results)
            /\ pc' = "next_row"
            /\ UNCHANGED << idx, all_results, f, log >>
       ELSE LET e == ordered_stores[idx]
                store_norm == normalize_store_name(e.key)
            IN  IF e.link.kind = "nonstr"
                THEN \* url.startswith raises outside the try of the loop: the
                     \* row ends in the except clause at line 8214.
                     /\ row_result' = FailedResult("error")
                     /\ pc' = "next_row"
                     /\ UNCHANGED << idx, all_results, flat_export_rows, f, log >>
                ELSE IF ~ IsHttp(e.link)
                THEN /\ all_results' = DictSet(all_results, store_norm,
                                               StoreResult(<<>>, "no_url", 0, e.link))
                     /\ idx' = idx + 1
                     /\ UNCHANGED << pc, row_result, flat_export_rows, f, log >>
                ELSE /\ f' = [ NoFetch EXCEPT !.url = e.link, !.store = store_norm, !.ret = "ea_after" ]
                     /\ log' = Append(log, Event("fetch", idx, store_norm, -1, -1))
                     /\ pc' = "fetch"
                     /\ UNCHANGED << idx, all_results, row_result, flat_export_rows >>
    /\ UNCHANGED << prices_dict, ordered_stores, stores_attempted, best_result, html,
                    BeautifulSoup_bound >>
    /\ UNCHANGED << configVars, rows_read, fetcherVars, zenVars, row_blocked >>
    /\ UNCHANGED auxVars

\* Body of the processing loop after fetch returned (lines 5708-5834).
EAAfter ==
    /\ pc = "ea_after"
    /\ LET e == ordered_stores[idx]
           store_norm == normalize_store_name(e.key)
           failed == StoreResult(<<>>, "fetch_failed", 0, e.link)
           fetched == Event("fetched", idx, store_norm, html.len, -1)
       IN  IF ~ ValidBody(html)
           THEN IF store_norm \in ea_fallback_stores
                THEN \* lines 5712-5746: the store's extractor on an empty document
                     \E crumbs \in RawCrumbSamples :
                       LET score == score_breadcrumb_quality(crumbs, store_norm)
                       IN  /\ log' = log \o << fetched,
                                               Event("extract", idx, store_norm, html.len,
                                                     IF crumbs # <<>> THEN score ELSE -1) >>
                           /\ all_results' =
                                DictSet(all_results, store_norm,
                                        IF crumbs # <<>>
                                        THEN StoreResult(JoinCrumbs(crumbs), "success", score, e.link)
                                        ELSE failed)
                ELSE /\ log' = Append(log, fetched)
                     /\ all_results' = DictSet(all_results, store_norm, failed)
           ELSE \/ \E raw \in RawCrumbSamples :
                     LET crumbs == normalize_breadcrumbs(raw, store_norm)
                         score == score_breadcrumb_quality(crumbs, store_norm)
                     IN  /\ log' = log \o << fetched,
                                             Event("extract", idx, store_norm, html.len,
                                                   IF crumbs # <<>> THEN score ELSE -1) >>
                         /\ all_results' =
                              DictSet(all_results, store_norm,
                                      IF crumbs # <<>>
                                      THEN StoreResult(JoinCrumbs(crumbs), "success", score, e.link)
                                      ELSE StoreResult(<<>>, "no_breadcrumbs", 0, e.link))
                \/ \* parsing or extraction raises: the except clause at 5826
                   /\ log' = log \o << fetched,
                                       Event("extract", idx, store_norm, html.len, -1) >>
                   /\ all_results' = DictSet(all_results, store_norm,
                                             StoreResult(<<>>, "error", 0, e.link))
    /\ idx' = idx + 1
    /\ pc' = "all_stores"
    /\ UNCHANGED << prices_dict, ordered_stores, stores_attempted, best_result,
                    row_result, html, f, flat_export_rows, BeautifulSoup_bound >>
    /\ UNCHANGED << configVars, rows_read, fetcherVars, zenVars, row_blocked >>
    /\ UNCHANGED auxVars

NextDb == ReadRowDb \/ EAStep \/ EAAfter \/ FetchEnter \/ FetchStrategy \/ Finish

\* A run of run_enhanced_scraper.
InitDb == Init /\ mode = "db"

SpecDb == InitDb /\ [][NextDb]_vars

Next == NextCsv \/ NextDb

Spec == Init /\ [][Next]_vars

(***************************************************************************)
(* Threads inside fetch.  The fetcher is one object shared by the workers  *)
(* of get_breadcrumbs_all_stores (process_single_store); fetch takes no    *)
(* lock around SESSION_CACHE.  Every thread of callers calls               *)
(* fetch(url, store) for the same url; a step of a thread is the cache     *)
(* lookup with the rate limit, or one strategy invocation.  sent and       *)
(* limited count the requests the call sent and its calls of               *)
(* _apply_rate_limit.                                                      *)
(***************************************************************************)
NumCallers == 2   \* threads that call fetch for the URL

NewCaller(url, store) ==
    [ url |-> url, store |-> store, pc |-> "call", attempt |-> 0, mi |-> 0,
      methods |-> <<>>, result |-> NoBody, sent |-> 0, limited |-> 0 ]

\* fetch, lines 2424-2431, in thread t.
ThreadEnter(t) ==
    /\ callers[t].pc = "call"
    /\ IF CacheHit(callers[t].url)
       THEN /\ callers' = [ callers EXCEPT ![t].pc = "done",
                                           ![t].result = DictGet(SESSION_CACHE, callers[t].url) ]
            /\ UNCHANGED << last_request_time, clock >>
       ELSE /\ last_request_time' = DictPut(last_request_time, callers[t].store, clock)
            /\ clock' = clock + 1
            /\ callers' = [ callers EXCEPT ![t].pc = "strategy", ![t].attempt = 0, ![t].mi = 1,
                                           ![t].limited = @ + 1,
                                           ![t].methods = phase1_methods(callers[t].store) ]
    /\ UNCHANGED << SESSION_CACHE, blocked_stores, blocked_urls >>

\* One pass of the inner loop of fetch (lines 2491-2523) in thread t and,
\* after the last strategy of the last attempt, lines 2558-2560.
ThreadStrategy(t) ==
    /\ callers[t].pc = "strategy"
    /\ \E resp \in Responses :
        LET c        == callers[t]
            method   == c.methods[c.mi]
            got      == StrategyReturn(method, resp)
            accepted == FetchLongEnough(got) /\ ~ got.ind
            blocked  == StrategyBlocked(method, resp) \/ (FetchLongEnough(got) /\ got.ind)
            lastOne  == c.mi = Len(c.methods) /\ c.attempt + 1 >= PHASE1_max_attempts
        IN  /\ blocked_stores' = IF blocked THEN blocked_stores \cup {c.store} ELSE blocked_stores
            /\ blocked_urls' = IF blocked THEN blocked_urls \cup {c.url} ELSE blocked_urls
            /\ IF accepted
               THEN /\ SESSION_CACHE' = DictPut(SESSION_CACHE, c.url, got)
                    /\ callers' = [ callers EXCEPT ![t].pc = "done", ![t].result = got,
                                                   ![t].sent = c.sent + 1 ]
               ELSE IF lastOne
               THEN /\ ~ TWO_PHASE_enable_two_phase
                    /\ SESSION_CACHE' = DictPut(SESSION_CACHE, c.url, NoBody)
                    /\ callers' = [ callers EXCEPT ![t].pc = "done", ![t].result = NoBody,
                                                   ![t].sent = c.sent + 1 ]
               ELSE /\ callers' = [ callers EXCEPT
                                      ![t].sent = c.sent + 1,
                                      ![t].mi = IF c.mi < Len(c.methods) THEN c.mi + 1 ELSE 1,
                                      ![t].attempt = IF c.mi < Len(c.methods)
                                                     THEN c.attempt ELSE c.attempt + 1 ]
                    /\ UNCHANGED SESSION_CACHE
    /\ UNCHANGED << last_request_time, clock >>

ThreadStep ==
    /\ \E t \in 1..NumCallers : ThreadEnter(t) \/ ThreadStrategy(t)
    /\ UNCHANGED << configVars, rows_read, pc, dispatchVars, html, f, zenVars, dbVars,
                    log, row_blocked >>
    /\ UNCHANGED << zen_last, proxyVars, sessionVars, crumbVars, fetch_hist, lateVars >>

NextConc == ThreadStep

\* NumCallers threads about to call fetch for one URL of one store.
InitConc ==
    /\ DispatchInit /\ mode = "csv" /\ zen_api_key = FALSE
    /\ ZenIdle /\ ProxyIdle /\ SessionIdle /\ CrumbIdle /\ HistIdle /\ LateIdle
    /\ \E s \in Stores :
          callers = [ t \in 1..NumCallers |->
                        NewCaller([ kind |-> "https", host |-> s ], s) ]

SpecConc == InitConc /\ [][NextConc]_vars

(***************************************************************************)
(* The external renderer on its own: calls of fetch_with_zenrows, one      *)
(* after the other, for any store and any answer of the service.           *)
(***************************************************************************)
MaxUnanswered == 2   \* renderer requests of a run that ended in an exception

ZenCall ==
    /\ \E store_norm \in Stores, resp \in ZenResponses :
        LET r == fetch_with_zenrows(store_norm, resp)
            unanswered == r[4] /\ resp.kind = "error"
        IN  /\ unanswered => zen_last.unanswered < MaxUnanswered
            /\ quota_exhausted' = r[2]
            /\ current_usage' = r[3]
            /\ zen_last' = [ seq |-> 1 - zen_last.seq, sent |-> r[4], body |-> r[1],
                             exhausted_before |-> quota_exhausted,
                             unanswered |-> zen_last.unanswered
                                            + (IF unanswered THEN 1 ELSE 0) ]
    /\ UNCHANGED << configVars, rows_read, pc, dispatchVars, html, f, fetcherVars, dbVars,
                    log, row_blocked >>
    /\ UNCHANGED << callers, proxyVars, sessionVars, crumbVars, fetch_hist, lateVars >>

NextZen == ZenCall

InitZen ==
    /\ DispatchInit /\ mode = "csv"
    /\ ConcIdle /\ ZenIdle /\ ProxyIdle /\ SessionIdle /\ CrumbIdle /\ HistIdle /\ LateIdle

SpecZen == InitZen /\ [][NextZen]_vars

(***************************************************************************)
(* AdvancedProxyManager.  Proxy i of proxy_configs has the id "proxy_i";   *)
(* failure_count, last_failure_time and success_count are dicts read with  *)
(* .get(id, 0), kept as functions on the ids with 0 for a missing key.     *)
(* clock is time.time() in seconds and advances by half a cooling period.  *)
(* Every method body runs under self.lock, so each is one step.            *)
(***************************************************************************)
MaxProxies == 2        \* proxies in the pool
MaxTicks == 3          \* advances of the clock
MaxFailureCount == 6   \* failures reported for one proxy
MaxSuccessCount == 1   \* successes reported for one proxy
MaxAcquires == 3       \* proxies handed out

cooling_period == 600
max_failures == 5

ProxyIds == 0..(proxy_configs - 1)

\* Lines 612-614 with the comparison turned around.
StillCoolingInverted(i) ==
    /\ failure_count[i] >= max_failures
    /\ clock - last_failure_time[i] > cooling_period

\* Lines 612-614: the proxy is skipped by get_working_proxy.
StillCooling(i) ==
    /\ failure_count[i] >= max_failures
    /\ clock - last_failure_time[i] < cooling_period

\* A scan that leaves the failure counts as they are.
CountsAfterScanKept(i) == failure_count[i]

\* Lines 612-617: failure_count[proxy_i] after the scan.
CountsAfterScan(i) ==
    IF failure_count[i] >= max_failures /\ ~ StillCooling(i) THEN 0 ELSE failure_count[i]

\* available_proxies, as the list of indexes in pool order.
available_proxies ==
    SelectSeq([ k \in 1..proxy_configs |-> k - 1 ], LAMBDA i : ~ StillCooling(i))

\* The rate computed at lines 648-651 as a fraction; rate > best_rate.
Rate(successes, failures) ==
    IF successes + failures = 0
    THEN [ num |-> 1, den |-> 1 ]
    ELSE [ num |-> successes, den |-> successes + failures ]

RateGreater(a, b) == a.num * b.den > b.num * a.den

\* The loop of _select_best_proxy over the rest of the list.
RECURSIVE SelectLoop(_, _, _, _)
SelectLoop(rest, best_proxy, best_rate, failures) ==
    IF rest = <<>> THEN best_proxy
    ELSE LET i    == Head(rest)
             rate == Rate(success_count[i], failures[i])
         IN  IF RateGreater(rate, best_rate)
             THEN SelectLoop(Tail(rest), i, rate, failures)
             ELSE SelectLoop(Tail(rest), best_proxy, best_rate, failures)

\* _select_best_proxy; failures is self.failure_count at the time of the call.
select_best_proxy(available, failures) ==
    IF Len(available) = 1 THEN available[1]
    ELSE SelectLoop(available, available[1], [ num |-> 0, den |-> 1 ], failures)

Lease(proxy, available) ==
    [ seq |-> 1 - lease.seq, proxy |-> proxy, available |-> Range(available) ]

get_working_proxy ==
    /\ total_requests < MaxAcquires
    /\ IF proxy_configs = 0
       THEN /\ lease' = Lease(-1, <<>>)
            /\ UNCHANGED << failure_count, current_index, total_requests >>
       ELSE LET failures == [ i \in ProxyIds |-> CountsAfterScan(i) ]
            IN  /\ failure_count' = failures
                /\ IF available_proxies = <<>>
                   THEN /\ lease' = Lease(-1, <<>>)
                        /\ UNCHANGED << current_index, total_requests >>
                   ELSE LET best_proxy == select_best_proxy(available_proxies, failures)
                        IN  /\ current_index' = best_proxy
                            /\ total_requests' = total_requests + 1
                            /\ lease' = Lease(best_proxy, available_proxies)
    /\ UNCHANGED << proxy_configs, last_failure_time, success_count, clock >>

\* report_success for the proxy last handed out.
report_success ==
    /\ lease.proxy # -1
    /\ success_count[lease.proxy] < MaxSuccessCount
    /\ success_count' = [ success_count EXCEPT ![lease.proxy] = @ + 1 ]
    /\ UNCHANGED << proxy_configs, failure_count, last_failure_time, current_index,
                    total_requests, lease, clock >>

\* report_failure for the proxy last handed out.
report_failure ==
    /\ lease.proxy # -1
    /\ failure_count[lease.proxy] < MaxFailureCount
    /\ failure_count' = [ failure_count EXCEPT ![lease.proxy] = @ + 1 ]
    /\ last_failure_time' = [ last_failure_time EXCEPT ![lease.proxy] = clock ]
    /\ UNCHANGED << proxy_configs, success_count, current_index, total_requests,
                    lease, clock >>

\* Time passes.
TimePasses ==
    /\ clock < 1 + MaxTicks * (cooling_period \div 2)
    /\ clock' = clock + cooling_period \div 2
    /\ UNCHANGED proxyVars

ProxyFrame ==
    /\ UNCHANGED << configVars, rows_read, pc, dispatchVars, html, f, SESSION_CACHE,
                    blocked_stores, blocked_urls, last_request_time, zenVars, dbVars,
                    log, row_blocked >>
    /\ UNCHANGED << callers, zen_last, sessionVars, crumbVars, fetch_hist, lateVars >>

GetWorkingProxy == get_working_proxy /\ ProxyFrame
ReportSuccess == report_success /\ ProxyFrame
ReportFailure == report_failure /\ ProxyFrame
ProxyClock == TimePasses /\ ProxyFrame

NextProxy == GetWorkingProxy \/ ReportSuccess \/ ReportFailure \/ ProxyClock

\* A manager made from up to MaxProxies configurations.
InitProxy ==
    /\ DispatchInit /\ mode = "csv" /\ zen_api_key = FALSE
    /\ ConcIdle /\ ZenIdle /\ SessionIdle /\ CrumbIdle /\ HistIdle /\ LateIdle
    /\ proxy_configs \in 0..MaxProxies
    /\ failure_count = [ i \in ProxyIds |-> 0 ]
    /\ last_failure_time = [ i \in ProxyIds |-> 0 ]
    /\ success_count = [ i \in ProxyIds |-> 0 ]
    /\ current_index = 0
    /\ total_requests = 0
    /\ lease = NoLease

SpecProxy == InitProxy /\ [][NextProxy]_vars

(***************************************************************************)
(* get_store_session.  store_sessions and request_count are dicts (sets    *)
(* of <<store, value>> pairs).  A requests.Session object is represented   *)
(* by its number among the sessions made for its store; served counts how  *)
(* often the store's current session object has been returned.             *)
(***************************************************************************)
MaxSessions == 2   \* sessions made for one store

session_refresh_interval == 10

\* A refresh test that never replaces an existing session.
NeedsSessionOnlyIfMissing(store_norm) == ~ InDict(store_sessions, store_norm)

\* Line 810.
NeedsSession(store_norm) ==
    \/ ~ InDict(store_sessions, store_norm)
    \/ (IF InDict(request_count, store_norm) THEN DictGet(request_count, store_norm) ELSE 0)
          >= session_refresh_interval

get_store_session(store_norm) ==
    LET fresh  == NeedsSession(store_norm)
        made   == IF InDict(store_sessions, store_norm)
                  THEN DictGet(store_sessions, store_norm) ELSE 0
        count  == IF fresh THEN 0 ELSE DictGet(request_count, store_norm)
    IN  /\ fresh => made < MaxSessions
        /\ store_sessions' = IF fresh THEN DictPut(store_sessions, store_norm, made + 1)
                                      ELSE store_sessions
        /\ request_count' = DictPut(request_count, store_norm, count + 1)
        /\ served' = DictPut(served, store_norm,
                             IF fresh THEN 1 ELSE DictGet(served, store_norm) + 1)

GetStoreSession ==
    /\ \E store_norm \in Stores : get_store_session(store_norm)
    /\ UNCHANGED << configVars, rows_read, pc, dispatchVars, html, f, fetcherVars, zenVars,
                    dbVars, log, row_blocked >>
    /\ UNCHANGED << callers, zen_last, proxyVars, crumbVars, fetch_hist, lateVars >>

NextSession == GetStoreSession

InitSession ==
    /\ DispatchInit /\ mode = "csv" /\ zen_api_key = FALSE
    /\ ConcIdle /\ ZenIdle /\ ProxyIdle /\ SessionIdle /\ CrumbIdle /\ HistIdle /\ LateIdle

SpecSession == InitSession /\ [][NextSession]_vars

(***************************************************************************)
(* normalize_breadcrumbs and score_breadcrumb_quality on their own: a raw  *)
(* list is normalized, the result is normalized once more, and the         *)
(* normalized list is scored, as attempt_single_store_scraping and the     *)
(* dispatchers do with an extractor's list.  The raw lists are all lists   *)
(* of up to MaxCrumbs texts and all windows of LongCrumbs.                 *)
(***************************************************************************)
MaxCrumbs == 2   \* length of the raw lists over all of RawTexts

LongCrumbs ==
    << "home", " Toys ", "Toys", "Fresh   Food", "Dairy", "Milk", "Products", "Recipes",
       "Sale", "", "Shop", "Aldi" >>

CrumbInputs ==
    SeqsUpTo(RawTexts, MaxCrumbs)
    \cup { SubSeq(LongCrumbs, i, j) : i \in 1..Len(LongCrumbs), j \in 1..Len(LongCrumbs) }

CrumbFrame ==
    /\ UNCHANGED << configVars, rows_read, pc, dispatchVars, html, f, fetcherVars, zenVars,
                    dbVars, log, row_blocked >>
    /\ UNCHANGED << callers, zen_last, proxyVars, sessionVars, single, fetch_hist, lateVars >>

NormalizeCrumbs ==
    /\ crumb_run.stage = "raw"
    /\ crumb_run' = [ crumb_run EXCEPT
                        !.stage = "cleaned",
                        !.cleaned = normalize_breadcrumbs(crumb_run.raw, crumb_run.store) ]
    /\ CrumbFrame

NormalizeAgain ==
    /\ crumb_run.stage = "cleaned"
    /\ crumb_run' = [ crumb_run EXCEPT
                        !.stage = "again",
                        !.again = normalize_breadcrumbs(crumb_run.cleaned, crumb_run.store) ]
    /\ CrumbFrame

ScoreCrumbs ==
    /\ crumb_run.stage = "again"
    /\ crumb_run' = [ crumb_run EXCEPT
                        !.stage = "scored",
                        !.score = score_breadcrumb_quality(crumb_run.cleaned, crumb_run.store) ]
    /\ CrumbFrame

NextCrumbs == NormalizeCrumbs \/ NormalizeAgain \/ ScoreCrumbs

InitCrumbs ==
    /\ DispatchInit /\ mode = "csv" /\ zen_api_key = FALSE
    /\ ConcIdle /\ ZenIdle /\ ProxyIdle /\ SessionIdle /\ HistIdle /\ LateIdle
    /\ single = NoSingle
    /\ \E raw \in CrumbInputs, store_norm \in Stores :
          crumb_run = [ NoCrumbRun EXCEPT !.raw = raw, !.store = store_norm, !.stage = "raw" ]

SpecCrumbs == InitCrumbs /\ [][NextCrumbs]_vars

(***************************************************************************)
(* attempt_single_store_scraping, called by process_single_url for one     *)
(* URL of one store.  The extractor returns any list of CrumbInputs or     *)
(* raises.                                                                 *)
(***************************************************************************)
SingleStores == Stores \cup {"tesco", "ocado", "amazon"}

stores_with_url_fallback == {"wilko", "amazon", "ebay"}

\* Lines 5249-5316: what the URL-based fallback returns for ocado,
\* depending on the words in the URL.
ocado_url_fallbacks ==
    { SingleOutcome(TRUE, << "Beer Wine & Spirits", "Spirits" >>, 75, "ocado_url_fallback_spirits"),
      SingleOutcome(TRUE, << "Beer Wine & Spirits", "Wine" >>, 75, "ocado_url_fallback_wine"),
      SingleOutcome(TRUE, << "Beer Wine & Spirits", "Beer & Cider" >>, 75, "ocado_url_fallback_beer"),
      SingleOutcome(TRUE, << "Fresh Food", "Dairy" >>, 70, "ocado_url_fallback_dairy"),
      SingleOutcome(TRUE, << "Fresh Food", "Bakery" >>, 70, "ocado_url_fallback_bakery"),
      SingleOutcome(TRUE, << "Fresh Food", "Meat & Poultry" >>, 70, "ocado_url_fallback_meat"),
      SingleOutcome(TRUE, << "Food Cupboard", "Chocolate & Sweets" >>, 65,
                    "ocado_url_fallback_chocolate"),
      SingleOutcome(TRUE, << "Fresh Food", "Fruit & Vegetables" >>, 70, "ocado_url_fallback_fruit"),
      SingleOutcome(TRUE, << "Fresh Food", "Fruit & Vegetables" >>, 70,
                    "ocado_url_fallback_vegetables"),
      SingleOutcome(TRUE, << "Food Cupboard", "Tea Coffee & Hot Drinks" >>, 65,
                    "ocado_url_fallback_tea_coffee"),
      SingleOutcome(TRUE, << "Products" >>, 40, "ocado_url_fallback_generic") }

\* Lines 5235-5238: the call of fetcher.fetch.
SingleCall ==
    /\ pc = "next_row"
    /\ single.stage = "call"
    /\ f' = [ NoFetch EXCEPT !.url = [ kind |-> "https", host |-> single.store_norm ],
                             !.store = single.store_norm, !.ret = "single_after" ]
    /\ pc' = "fetch"
    /\ single' = [ single EXCEPT !.stage = "fetching" ]
    /\ UNCHANGED << configVars, rows_read, dispatchVars, html, fetcherVars, zenVars, dbVars,
                    log, row_blocked >>
    /\ UNCHANGED << callers, zen_last, proxyVars, sessionVars, crumb_run, fetch_hist, lateVars >>

\* Lines 5240-5374, after fetch has returned html.
SingleAfter ==
    /\ pc = "single_after"
    /\ pc' = "next_row"
    /\ \E outcome \in
          IF (~ Truthy(html) \/ html.len < MinBodyLen)
             /\ single.store_norm \notin stores_with_url_fallback
          THEN IF single.store_norm = "ocado" THEN ocado_url_fallbacks
               ELSE IF single.store_norm = "tesco"
               THEN { SingleOutcome(TRUE, << "Products" >>, 40, "tesco_url_fallback_generic") }
               ELSE { SingleOutcome(FALSE, <<>>, 0, "invalid_html_response") }
          ELSE { SingleOutcome(FALSE, <<>>, 0, "exception") }
               \cup { LET crumbs == normalize_breadcrumbs(raw, single.store_norm)
                      IN  IF crumbs # <<>>
                          THEN SingleOutcome(TRUE, crumbs,
                                             score_breadcrumb_quality(crumbs, single.store_norm),
                                             "extractor")
                          ELSE SingleOutcome(FALSE, <<>>, 0, "no_breadcrumbs_extracted")
                      : raw \in CrumbInputs } :
          single' = [ single EXCEPT !.stage = "done", !.result = outcome ]
    /\ UNCHANGED << configVars, rows_read, dispatchVars, html, f, fetcherVars, zenVars, dbVars,
                    log, row_blocked >>
    /\ UNCHANGED << callers, zen_last, proxyVars, sessionVars, crumb_run, fetch_hist, lateVars >>

NextSingle == SingleCall \/ FetchEnter \/ FetchStrategy \/ SingleAfter

InitSingle ==
    /\ DispatchInit /\ mode = "csv" /\ zen_api_key = FALSE
    /\ ConcIdle /\ ZenIdle /\ ProxyIdle /\ SessionIdle /\ HistIdle /\ LateIdle
    /\ crumb_run = NoCrumbRun
    /\ \E store_norm \in SingleStores :
          single = [ NoSingle EXCEPT !.store_norm = store_norm, !.stage = "call" ]

SpecSingle == InitSingle /\ [][NextSingle]_vars

(***************************************************************************)
(* fetch with the history of its strategy invocations, called by           *)
(* attempt_single_store_scraping for the URL of one store.  Besides the    *)
(* responses of the dispatcher runs, a strategy may get a short page that  *)
(* holds a string of fetch's list and a page that holds a string only      *)
(* fetch_with_requests knows.                                              *)
(***************************************************************************)
FetchStores == SingleStores \cup {"morrisons", "asda", "waitrose", "poundland"}

TracedResponses ==
    Responses
    \cup { [ kind |-> "page", body |-> Body(499, TRUE) ],
           [ kind |-> "page", body |-> ChallengeBody(501) ] }

\* The response is a 403, 429 or 503 status or its text holds one of the
\* strings that lines 1228, 1598 and 2509 look for.
HasBlockIndicator(resp) ==
    \/ resp.kind \in {"status403", "blockpage"}
    \/ resp.kind = "page" /\ (resp.body.ind \/ resp.body.challenge)

FetchEnterTraced ==
    /\ FetchEnterBody
    /\ fetch_hist' = NewHist(IF CacheHit(f.url) THEN <<>> ELSE phase1_methods(f.store))
    /\ UNCHANGED otherVars

FetchStrategyTraced ==
    /\ \E resp \in TracedResponses :
        /\ FetchStrategyBody(resp)
        /\ fetch_hist' = [ count |-> [ fetch_hist.count EXCEPT ![f.mi] = @ + 1 ],
                           method |-> f.methods[f.mi],
                           resp |-> resp,
                           all_block |-> fetch_hist.all_block /\ HasBlockIndicator(resp) ]
    /\ UNCHANGED otherVars

NextFetch == SingleCall \/ FetchEnterTraced \/ FetchStrategyTraced \/ SingleAfter

InitFetch ==
    /\ DispatchInit /\ mode = "csv" /\ zen_api_key = FALSE
    /\ ConcIdle /\ ZenIdle /\ ProxyIdle /\ SessionIdle /\ HistIdle /\ LateIdle
    /\ crumb_run = NoCrumbRun
    /\ \E store_norm \in FetchStores :
          single = [ NoSingle EXCEPT !.store_norm = store_norm, !.stage = "call" ]

SpecFetch == InitFetch /\ [][NextFetch]_vars

\* Every strategy invocation and the return of fetch happen eventually.
SpecFetchFair == SpecFetch /\ WF_vars(FetchEnterTraced) /\ WF_vars(FetchStrategyTraced)

(***************************************************************************)
(* run_enhanced_scraper with the history of each fetch call.               *)
(***************************************************************************)
MaxTracedRows == 1   \* rows read in a run that keeps the history

ReadRowDbTraced == ReadRowDb /\ rows_read < MaxTracedRows

NextDbTraced ==
    ReadRowDbTraced \/ EAStep \/ EAAfter \/ FetchEnterTraced \/ FetchStrategyTraced \/ Finish

SpecDbTraced == InitDb /\ [][NextDbTraced]_vars

(***************************************************************************)
(* fetch_with_requests, lines 1417-1612, for one store URL.  The call      *)
(* takes the store's session, asks the proxy manager for a proxy, sends    *)
(* the homepage warm-up for the strict stores and then requests the URL    *)
(* in the loop of lines 1542-1585.  A request ends with a transport error  *)
(* (timeout or connection error), another exception, or a response.        *)
(***************************************************************************)
max_retries == 3

RequestsStores == {"aldi", "tesco"}

warmup_stores == {"sainsburys", "tesco", "waitrose", "ocado", "morrisons"}

RequestOutcomes == {"transport", "exception", "page", "blockpage", "status403", "status500"}

\* A loop that keeps the proxy for every retry.
SwitchToDirectNever(proxy_dict, retry) == FALSE

\* Line 1567: the proxy is given up after the failure of the second attempt.
SwitchToDirect(proxy_dict, retry) == proxy_dict # -1 /\ retry = 1

RequestsFrame ==
    /\ UNCHANGED << configVars, rows_read, pc, dispatchVars, html, f, SESSION_CACHE,
                    last_request_time, zenVars, dbVars, log, row_blocked >>
    /\ UNCHANGED << callers, zen_last, crumbVars, fetch_hist, session_callers, session_hist, keyVars,
                    url_run >>

\* Lines 1420-1540: session, proxy, warm-up.
RequestsEnter ==
    /\ req.stage \in {"idle", "done"}
    /\ \E store_norm \in RequestsStores :
          /\ get_store_session(store_norm)
          /\ IF proxy_configs > 0
             THEN get_working_proxy
             ELSE UNCHANGED << proxyVars, clock >>
          /\ req' = [ NoRequestsCall EXCEPT
                        !.stage = "loop",
                        !.store = store_norm,
                        !.proxy_dict = IF proxy_configs > 0 THEN lease'.proxy ELSE -1,
                        !.leased = IF proxy_configs > 0 THEN lease'.proxy ELSE -1,
                        !.failures_before =
                            IF proxy_configs > 0 /\ lease'.proxy # -1
                            THEN failure_count'[lease'.proxy] ELSE 0,
                        !.warmup = store_norm \in warmup_stores ]
    /\ UNCHANGED << blocked_stores, blocked_urls >>
    /\ RequestsFrame

\* One pass of the loop at 1542-1585 and, when the loop ends with a
\* response, lines 1587-1612.
RequestsAttempt ==
    /\ req.stage = "loop"
    /\ \E out \in RequestOutcomes :
        LET via    == IF req.proxy_dict # -1 THEN "proxy" ELSE "direct"
            sent   == Append(req.sent, via)
            url    == [ kind |-> "https", host |-> req.store ]
            report == req.proxy_dict # -1
            blocks == out \in {"blockpage", "status403"}
        IN  /\ blocked_stores' = IF blocks THEN blocked_stores \cup {req.store}
                                           ELSE blocked_stores
            /\ blocked_urls' = IF blocks THEN blocked_urls \cup {url} ELSE blocked_urls
            /\ IF out = "transport" /\ req.retry < max_retries - 1
               THEN IF SwitchToDirect(req.proxy_dict, req.retry)
                    THEN /\ report_failure
                         /\ req' = [ req EXCEPT !.sent = sent, !.out = out,
                                                !.retry = req.retry + 1,
                                                !.proxy_dict = -1,
                                                !.reported = req.reported + 1 ]
                    ELSE /\ UNCHANGED << proxyVars, clock >>
                         /\ req' = [ req EXCEPT !.sent = sent, !.out = out,
                                                !.retry = req.retry + 1 ]
               ELSE IF out = "exception"
               THEN /\ UNCHANGED << proxyVars, clock >>
                    /\ req' = [ req EXCEPT !.sent = sent, !.out = out, !.stage = "done" ]
               ELSE IF out = "page"
               THEN /\ IF report THEN report_success ELSE UNCHANGED << proxyVars, clock >>
                    /\ req' = [ req EXCEPT !.sent = sent, !.out = out, !.stage = "done",
                                           !.returned = Body(501, FALSE) ]
               ELSE /\ IF report THEN report_failure ELSE UNCHANGED << proxyVars, clock >>
                    /\ req' = [ req EXCEPT !.sent = sent, !.out = out, !.stage = "done",
                                           !.reported = req.reported + (IF report THEN 1 ELSE 0) ]
    /\ UNCHANGED sessionVars
    /\ RequestsFrame

NextRequests == RequestsEnter \/ RequestsAttempt

InitRequests ==
    /\ DispatchInit /\ mode = "csv" /\ zen_api_key = FALSE
    /\ ConcIdle /\ ZenIdle /\ SessionIdle /\ CrumbIdle /\ HistIdle /\ LateIdle
    /\ proxy_configs \in 0..MaxProxies
    /\ failure_count = [ i \in ProxyIds |-> 0 ]
    /\ last_failure_time = [ i \in ProxyIds |-> 0 ]
    /\ success_count = [ i \in ProxyIds |-> 0 ]
    /\ current_index = 0
    /\ total_requests = 0
    /\ lease = NoLease

SpecRequests == InitRequests /\ [][NextRequests]_vars

(***************************************************************************)
(* get_store_session called by the worker threads of                       *)
(* get_breadcrumbs_all_stores for one store.  The method takes no lock,    *)
(* so a step of a thread is one statement: the test of line 810, the two   *)
(* assignments of lines 855-856, the read and the write of the             *)
(* `+= 1` of line 858, and the return of line 859.                         *)
(***************************************************************************)
MaxSessionCalls == 12   \* calls of get_store_session in one run

SessionStore == "tesco"

IdleSessionCaller == [ pc |-> "idle", session |-> 0, tmp |-> 0 ]

CountOf(store_norm) ==
    IF InDict(request_count, store_norm) THEN DictGet(request_count, store_norm) ELSE 0

\* Line 810, and requests.Session() at 811 when the test holds.
SessionTest(t) ==
    /\ session_callers[t].pc = "idle"
    /\ session_hist.calls < MaxSessionCalls
    /\ IF NeedsSession(SessionStore)
       THEN /\ session_callers' = [ session_callers EXCEPT
                                      ![t].pc = "set_session",
                                      ![t].session = Len(session_hist.returned) + 1 ]
            /\ session_hist' = [ session_hist EXCEPT
                                   !.calls = @ + 1, !.returned = Append(@, 0) ]
       ELSE /\ session_callers' = [ session_callers EXCEPT ![t].pc = "read" ]
            /\ session_hist' = [ session_hist EXCEPT !.calls = @ + 1 ]
    /\ UNCHANGED << store_sessions, request_count >>

\* Line 855.
SessionSet(t) ==
    /\ session_callers[t].pc = "set_session"
    /\ store_sessions' = DictPut(store_sessions, SessionStore, session_callers[t].session)
    /\ session_callers' = [ session_callers EXCEPT ![t].pc = "reset_count" ]
    /\ UNCHANGED << request_count, session_hist >>

\* Line 856.
SessionResetCount(t) ==
    /\ session_callers[t].pc = "reset_count"
    /\ request_count' = DictPut(request_count, SessionStore, 0)
    /\ session_callers' = [ session_callers EXCEPT ![t].pc = "read" ]
    /\ UNCHANGED << store_sessions, session_hist >>

\* Line 858, the read of request_count[store_norm]; KeyError when another
\* thread has set the session and not yet the count.
SessionReadCount(t) ==
    /\ session_callers[t].pc = "read"
    /\ IF InDict(request_count, SessionStore)
       THEN /\ session_callers' = [ session_callers EXCEPT
                                      ![t].pc = "write",
                                      ![t].tmp = DictGet(request_count, SessionStore) ]
            /\ UNCHANGED session_hist
       ELSE /\ session_callers' = [ session_callers EXCEPT ![t] = IdleSessionCaller ]
            /\ session_hist' = [ session_hist EXCEPT !.raised = @ + 1 ]
    /\ UNCHANGED << store_sessions, request_count >>

\* Line 858, the write.
SessionWriteCount(t) ==
    /\ session_callers[t].pc = "write"
    /\ request_count' = DictPut(request_count, SessionStore, session_callers[t].tmp + 1)
    /\ session_callers' = [ session_callers EXCEPT ![t].pc = "return" ]
    /\ UNCHANGED << store_sessions, session_hist >>

\* Line 859.
SessionReturn(t) ==
    /\ session_callers[t].pc = "return"
    /\ session_hist' = [ session_hist EXCEPT
                           !.returned[DictGet(store_sessions, SessionStore)] = @ + 1 ]
    /\ session_callers' = [ session_callers EXCEPT ![t] = IdleSessionCaller ]
    /\ UNCHANGED << store_sessions, request_count >>

SessionThreadStep ==
    /\ \E t \in 1..NumCallers :
          \/ SessionTest(t)
          \/ SessionSet(t)
          \/ SessionResetCount(t)
          \/ SessionReadCount(t)
          \/ SessionWriteCount(t)
          \/ SessionReturn(t)
    /\ UNCHANGED << configVars, rows_read, pc, dispatchVars, html, f, fetcherVars, zenVars,
                    dbVars, log, row_blocked >>
    /\ UNCHANGED << callers, zen_last, proxyVars, served, crumbVars, fetch_hist, req, keyVars,
                    url_run >>

NextSessionThreads == SessionThreadStep

InitSessionThreads ==
    /\ DispatchInit /\ mode = "csv" /\ zen_api_key = FALSE
    /\ ConcIdle /\ ZenIdle /\ ProxyIdle /\ SessionIdle /\ CrumbIdle /\ HistIdle
    /\ req = NoRequestsCall
    /\ session_callers = [ t \in 1..NumCallers |-> IdleSessionCaller ]
    /\ session_hist = NoSessionHist
    /\ KeysIdle
    /\ url_run = NoUrlRun

SpecSessionThreads == InitSessionThreads /\ [][NextSessionThreads]_vars


(***************************************************************************)
(* The conversion failover of process_vineet_sheet: an APIKeyManager over  *)
(* the keys of API_KEYS, one call of convert_ingredient_with_failover per  *)
(* row of the sheet, one request per step of its loop.  Key indices are    *)
(* those of the code, counted from 0.                                      *)
(***************************************************************************)
MaxKeys == 3         \* keys of API_KEYS the manager is built with
MaxSheetRows == 3    \* rows of the sheet

vineet_API_KEYS ==
    SubSeq(<< "10b271a3", "229fd521", "89e5dca8", "dc6d9d6f",
              "f9d9c222", "3e94fab0", "5e1cbf5a", "09af43e6" >>, 1, MaxKeys)

KeyIndices(api_keys) == 0..(Len(api_keys) - 1)

RECURSIVE AvailableFrom(_, _, _)
AvailableFrom(api_keys, exhausted_keys, i) ==
    IF i > Len(api_keys) THEN << >>
    ELSE (IF (i - 1) \notin exhausted_keys THEN << api_keys[i] >> ELSE << >>)
         \o AvailableFrom(api_keys, exhausted_keys, i + 1)

get_available_keys(api_keys, exhausted_keys) == AvailableFrom(api_keys, exhausted_keys, 1)

mark_next_key_exhausted(exhausted_keys, key_index) == exhausted_keys \cup {key_index + 1}

mark_key_exhausted(exhausted_keys, key_index) == exhausted_keys \cup {key_index}

has_available_keys(api_keys, exhausted_keys) ==
    Len(get_available_keys(api_keys, exhausted_keys)) > 0

\* list.index: the first position that holds the key
list_index(api_keys, api_key) ==
    (CHOOSE i \in 1..Len(api_keys) :
        /\ api_keys[i] = api_key
        /\ \A j \in 1..(i - 1) : api_keys[j] # api_key) - 1

\* what requests.get and response.json() can do in one step of the loop
FailoverResponses ==
    { "200", "401", "402", "403", "429", "500",
      "Timeout", "ConnectionError", "JSONDecodeError" }

ExhaustsKey(response) == response \in {"401", "402", "403"}

\* the error_type a step of the loop returns with, "continue" when it goes on
FailoverReturn(response) ==
    CASE response = "200" -> "None"
      [] response = "Timeout" -> "timeout"
      [] response = "ConnectionError" -> "connection_error"
      [] OTHER -> "continue"

StatusOfReturn(error_type) ==
    CASE error_type = "None" -> "Success"
      [] error_type = "no_keys_available" -> "Failed - No API keys available"
      [] error_type \in {"timeout", "connection_error"} -> "Skipped - Network error"
      [] OTHER -> "Failed - All API keys failed"

KeysFrame ==
    /\ UNCHANGED << configVars, rows_read, pc, dispatchVars, html, f, fetcherVars, zenVars,
                    dbVars, log, row_blocked >>
    /\ UNCHANGED << callers, zen_last, proxyVars, sessionVars, crumbVars, fetch_hist,
                    req, session_callers, session_hist, url_run >>

\* Lines 161-188: one row up to the call of the failover.
VineetRow ==
    /\ key_manager.stage = "rows"
    /\ key_manager.rows_left > 0
    /\ \E missing \in BOOLEAN :
          LET available_keys == get_available_keys(vineet_API_KEYS,
                                                   key_manager.exhausted_keys)
          IN  key_manager' =
                IF missing
                THEN [ key_manager EXCEPT !.rows_left = @ - 1,
                           !.conversion_status = "Skipped - Missing data" ]
                ELSE IF ~ has_available_keys(vineet_API_KEYS, key_manager.exhausted_keys)
                THEN [ key_manager EXCEPT !.stage = "done",
                           !.conversion_status = "Not processed - API keys exhausted" ]
                ELSE IF available_keys = << >>
                THEN [ key_manager EXCEPT !.rows_left = @ - 1,
                           !.conversion_status = StatusOfReturn("no_keys_available") ]
                ELSE [ key_manager EXCEPT !.stage = "failover",
                           !.available_keys = available_keys, !.attempt = 1 ]
    /\ UNCHANGED conversion
    /\ KeysFrame

\* Lines 53-110: one step of the loop over the keys that were available when
\* the call began, and the row's status when the call returns.
VineetAttempt ==
    /\ key_manager.stage = "failover"
    /\ \E response \in FailoverResponses :
          LET api_key == key_manager.available_keys[key_manager.attempt]
              key_index == list_index(vineet_API_KEYS, api_key)
              exhausted_keys ==
                  IF ExhaustsKey(response)
                  THEN mark_key_exhausted(key_manager.exhausted_keys, key_index)
                  ELSE key_manager.exhausted_keys
              last == key_manager.attempt = Len(key_manager.available_keys)
              error_type ==
                  IF FailoverReturn(response) = "continue" /\ last
                  THEN "all_keys_failed"
                  ELSE FailoverReturn(response)
              sent == [ key_manager EXCEPT !.sent = 1 - @, !.api_key = api_key,
                            !.key_index = key_index, !.response = response,
                            !.exhausted_keys = exhausted_keys ]
          IN  key_manager' =
                IF error_type = "continue"
                THEN [ sent EXCEPT !.attempt = @ + 1 ]
                ELSE [ sent EXCEPT !.stage = "rows", !.rows_left = @ - 1,
                           !.available_keys = << >>, !.attempt = 0,
                           !.conversion_status = StatusOfReturn(error_type) ]
    /\ UNCHANGED conversion
    /\ KeysFrame

\* Lines 224-262: the sheet is written back when the rows are through.
VineetSave ==
    /\ key_manager.stage = "rows"
    /\ key_manager.rows_left = 0
    /\ key_manager' = [ key_manager EXCEPT !.stage = "done" ]
    /\ UNCHANGED conversion
    /\ KeysFrame

NextVineet == VineetRow \/ VineetAttempt \/ VineetSave

InitVineet ==
    /\ DispatchInit /\ mode = "csv" /\ zen_api_key = FALSE
    /\ ConcIdle /\ ZenIdle /\ ProxyIdle /\ SessionIdle /\ CrumbIdle /\ HistIdle
    /\ req = NoRequestsCall
    /\ session_callers = NoSessionCallers
    /\ session_hist = NoSessionHist
    /\ url_run = NoUrlRun
    /\ conversion = NoConversion
    /\ \E n \in 0..MaxSheetRows :
          key_manager = [ NoKeyManager EXCEPT !.stage = "rows", !.rows_left = n ]

SpecVineet == InitVineet /\ [][NextVineet]_vars


(***************************************************************************)
(* get_conversion: the rows of the input file in order, for each row a     *)
(* loop of requests made with API_KEYS[key_index].  One request per step.  *)
(***************************************************************************)
MaxConversionKeys == 3   \* keys of API_KEYS
MaxConversionRows == 3   \* rows of the input file

API_KEYS ==
    SubSeq(<< "10b271a3", "229fd521", "89e5dca8", "dc6d9d6f", "5e1cbf5a", "09af43e6",
              "9dc4cba0", "68e46665", "da23f1a6", "5b935935", "ce773150", "af1133b7",
              "38038503" >>, 1, MaxConversionKeys)

\* what requests.get and response.json() can do in one pass of the loop
ConversionResponses == { "200", "402", "429", "404", "500", "exception" }

SwitchesKey(response) == response \in {"402", "429"}

\* the condition of the while loop
ConversionRetries(success, key_index) == ~ success /\ key_index < Len(API_KEYS)

\* Line 33: the next row of the file.
ConversionRow ==
    /\ conversion.stage = "rows"
    /\ conversion.rows_left > 0
    /\ conversion' = [ conversion EXCEPT !.stage = "loop", !.success = FALSE ]
    /\ UNCHANGED key_manager
    /\ KeysFrame

\* Lines 36-72: one pass of the while loop.
ConversionRequest ==
    /\ conversion.stage = "loop"
    /\ ConversionRetries(conversion.success, conversion.key_index)
    /\ \E response \in ConversionResponses :
          LET sent == [ conversion EXCEPT !.sent = 1 - @, !.response = response ]
          IN  conversion' =
                CASE response = "200" ->
                        [ sent EXCEPT !.results = Append(@, "converted"),
                                      !.success = TRUE ]
                  [] SwitchesKey(response) ->
                        [ sent EXCEPT !.key_index = @ + 1 ]
                  [] response = "exception" -> sent
                  [] OTHER ->
                        [ sent EXCEPT !.results = Append(@, "Error/Not Found"),
                                      !.success = TRUE ]
    /\ UNCHANGED key_manager
    /\ KeysFrame

\* Lines 74-76: after the loop, stop when no key is left.
ConversionRowEnd ==
    /\ conversion.stage = "loop"
    /\ ~ ConversionRetries(conversion.success, conversion.key_index)
    /\ conversion' =
          IF conversion.key_index >= Len(API_KEYS)
          THEN [ conversion EXCEPT !.stage = "done" ]
          ELSE [ conversion EXCEPT !.stage = "rows", !.rows_left = @ - 1 ]
    /\ UNCHANGED key_manager
    /\ KeysFrame

\* Lines 78-81: the results are written when the rows are through.
ConversionSave ==
    /\ conversion.stage = "rows"
    /\ conversion.rows_left = 0
    /\ conversion' = [ conversion EXCEPT !.stage = "done" ]
    /\ UNCHANGED key_manager
    /\ KeysFrame

NextConversion ==
    ConversionRow \/ ConversionRequest \/ ConversionRowEnd \/ ConversionSave

InitConversion ==
    /\ DispatchInit /\ mode = "csv" /\ zen_api_key = FALSE
    /\ ConcIdle /\ ZenIdle /\ ProxyIdle /\ SessionIdle /\ CrumbIdle /\ HistIdle
    /\ req = NoRequestsCall
    /\ session_callers = NoSessionCallers
    /\ session_hist = NoSessionHist
    /\ url_run = NoUrlRun
    /\ key_manager = NoKeyManager
    /\ \E n \in 0..MaxConversionRows :
          conversion = [ NoConversion EXCEPT !.stage = "rows", !.rows_left = n ]

SpecConversion == InitConversion /\ [][NextConversion]_vars

\* every step that can be taken is taken in the end: the process runs on
SpecConversionFair == SpecConversion /\ WF_vars(NextConversion)


(***************************************************************************)
(* process_single_url: with a store name the URL goes to                   *)
(* attempt_single_store_scraping at once, without one the store is looked  *)
(* up with detect_store_from_url first.  A URL is modelled by the domain   *)
(* it names; `pattern in url_lower` holds when the domain is the pattern.  *)
(***************************************************************************)
UrlSamples == { "tesco.com", "OCADO.COM", "amazon.co.uk", "aldi.co.uk", "example.org" }

UrlStoreNames == { "None", "Aldi", "argos" }

url_lower(url) == IF url = "OCADO.COM" THEN "ocado.com" ELSE url

\* Lines 5582-5598, in the order of the dictionary.
store_patterns ==
    << << "sainsburys", {"sainsburys.co.uk"} >>,
       << "ocado", {"ocado.com"} >>,
       << "boots", {"boots.com"} >>,
       << "amazon", {"amazon.co.uk", "amazon.com"} >>,
       << "asda", {"asda.com"} >>,
       << "tesco", {"tesco.com"} >>,
       << "waitrose", {"waitrose.com"} >>,
       << "wilko", {"wilko.com"} >>,
       << "savers", {"savers.co.uk"} >>,
       << "poundland", {"poundland.co.uk"} >>,
       << "bmstores", {"bmstores.co.uk"} >>,
       << "ebay", {"ebay.co.uk", "ebay.com"} >>,
       << "morrisons", {"morrisons.com"} >>,
       << "iceland", {"iceland.co.uk"} >>,
       << "argos", {"argos.co.uk"} >> >>

MatchingPatterns(url) ==
    { i \in 1..Len(store_patterns) : url_lower(url) \in store_patterns[i][2] }

\* Lines 5577-5605.  The first store with a matching pattern is returned;
\* when none matches, line 5605 evaluates the name best_result, which is
\* bound neither in the function nor in the module: NameError.
detect_store_from_url(url) ==
    IF MatchingPatterns(url) = {}
    THEN [ raised |-> "NameError", store |-> "None" ]
    ELSE [ raised |-> "None",
           store |-> store_patterns[CHOOSE i \in MatchingPatterns(url) :
                                        \A j \in MatchingPatterns(url) : i <= j][1] ]

UrlFrame ==
    /\ UNCHANGED << configVars, rows_read, pc, dispatchVars, html, f, fetcherVars, zenVars,
                    dbVars, log, row_blocked >>
    /\ UNCHANGED << callers, zen_last, proxyVars, sessionVars, crumb_run, fetch_hist,
                    req, session_callers, session_hist, keyVars >>

\* Lines 5381-5433 up to the call of attempt_single_store_scraping or the
\* return without one.
UrlDispatch ==
    /\ url_run.stage = "call"
    /\ LET detected == detect_store_from_url(url_run.url)
           scrape(store_name) ==
               /\ single' = [ NoSingle EXCEPT !.stage = "call",
                                  !.store_norm = normalize_store_name(store_name) ]
               /\ url_run' = [ url_run EXCEPT !.stage = "scraping", !.attempted = TRUE,
                                   !.outcome.store_name = store_name ]
       IN  IF url_run.store_name # "None"
           THEN scrape(url_run.store_name)
           ELSE IF detected.raised # "None"
           THEN /\ url_run' = [ url_run EXCEPT !.stage = "done",
                                    !.raised = detected.raised ]
                /\ UNCHANGED single
           ELSE IF detected.store # "None"
           THEN scrape(detected.store)
           ELSE /\ url_run' = [ url_run EXCEPT !.stage = "done",
                                    !.outcome = UrlOutcome("None", FALSE, 0,
                                                           "store_detection_failed",
                                                           "failed_detection") ]
                /\ UNCHANGED single
    /\ UrlFrame

\* Lines 5394-5404 and 5411-5421: the outcome is built from what
\* attempt_single_store_scraping returned.
UrlReturn ==
    /\ url_run.stage = "scraping"
    /\ single.stage = "done"
    /\ url_run' = [ url_run EXCEPT !.stage = "done",
                        !.outcome = UrlOutcome(url_run.outcome.store_name,
                                               single.result.success, single.result.score,
                                               single.result.method,
                                               IF url_run.store_name # "None"
                                               THEN "single_store" ELSE "auto_detected") ]
    /\ UNCHANGED single
    /\ UrlFrame

NextUrl ==
    UrlDispatch \/ SingleCall \/ FetchEnter \/ FetchStrategy \/ SingleAfter \/ UrlReturn

InitUrl ==
    /\ DispatchInit /\ mode = "csv" /\ zen_api_key = FALSE
    /\ ConcIdle /\ ZenIdle /\ ProxyIdle /\ SessionIdle /\ HistIdle /\ KeysIdle
    /\ req = NoRequestsCall
    /\ session_callers = NoSessionCallers
    /\ session_hist = NoSessionHist
    /\ crumb_run = NoCrumbRun
    /\ single = NoSingle
    /\ \E url \in UrlSamples, store_name \in UrlStoreNames :
          url_run = [ NoUrlRun EXCEPT !.stage = "call", !.url = url,
                                      !.store_name = store_name ]

SpecUrl == InitUrl /\ [][NextUrl]_vars

(***************************************************************************)
(* Properties.  The history log holds the calls the dispatcher made for    *)
(* the row being processed, in the order it made them.                     *)
(***************************************************************************)
RowOver == pc \in {"next_row", "finished"}

SetMax(S) == CHOOSE x \in S : \A y \in S : y <= x

\* The extractor call at position i of the history belongs to Phase 1.
Phase1Extract(i) ==
    /\ i > 1
    /\ log[i].op = "extract"
    /\ log[i - 1].op = "fetched"

\* C1: in process_row_with_priority_system, a Phase 1 outcome with score
\* >= 50 is returned at once: it is the last call of the row's history (no
\* fetch and no renderer call follows it) and it is the row's result.
EarlyStopReturnsAtOnce ==
    \A i \in 1..Len(log) :
        (mode = "csv" /\ Phase1Extract(i) /\ log[i].score >= EarlyStopScore)
        => /\ i = Len(log)
           /\ RowOver
           /\ row_result.status = "success"
           /\ row_result.score = log[i].score
           /\ row_result.store_used = log[i].store

\* A Phase 1 page scored >= 50 and the row returned it while a later store
\* of the row with a product URL was never fetched.
EarlyStopWitness ==
    /\ mode = "csv"
    /\ pc = "next_row"
    /\ Len(log) > 1
    /\ Phase1Extract(Len(log))
    /\ log[Len(log)].len >= MinBodyLen
    /\ log[Len(log)].score >= EarlyStopScore
    /\ row_result.score = log[Len(log)].score
    /\ \E k \in (log[Len(log)].pos + 1)..Len(ordered_stores) :
           /\ IsHttp(ordered_stores[k].link)
           /\ ordered_stores[k].store # log[Len(log)].store

\* C2: fetch_with_zenrows is called for a store only if the store is in
\* the fetcher's blocked set, no outcome of the row before the call scored
\* >= 50, and the Phase 1 loop is over: every store of the row with a
\* product URL was fetched before the call and no fetch follows it.
ZenRowsOnlyForBlockedAfterPhase1 ==
    \A i \in 1..Len(log) :
        log[i].op = "zenrows"
        => /\ log[i].store \in blocked_stores
           /\ \A j \in 1..(i - 1) : log[j].op = "extract" => log[j].score < EarlyStopScore
           /\ \A j \in 1..Len(log) : log[j].op = "fetch" => j < i
           /\ \A k \in 1..Len(ordered_stores) :
                  IsHttp(ordered_stores[k].link)
                  => \E j \in 1..(i - 1) : log[j].op = "fetch" /\ log[j].pos = k

\* Phase 2 rendered a blocked store's page and an outcome was extracted
\* from it, in a row that also holds a store that was not blocked.
ZenRowsWitness ==
    /\ \E i \in 1..Len(log) :
          /\ log[i].op = "zenrows"
          /\ \E j \in (i + 1)..Len(log) :
                log[j].op = "extract" /\ log[j].pos = log[i].pos /\ log[j].score >= 0
    /\ \E k \in 1..Len(ordered_stores) :
          IsHttp(ordered_stores[k].link) /\ ordered_stores[k].store \notin blocked_stores

\* C3: the blocked set a row's Phase 2 consults is exactly the set of
\* stores recorded as blocked while that row's Phase 1 ran.
Phase2ConsultsRowBlockedSet ==
    pc = "phase2" => blocked_stores = row_blocked

\* C4: ordered_stores is the row's items stably sorted by priority index
\* (unlisted stores last, in dict order); fetches happen one at a time in
\* that order; and when the row returns a success for a store, every
\* store before it with a product URL was fetched earlier and none of
\* their outcomes scored >= 50.
SequentialInPriorityOrder ==
    mode = "csv" =>
    /\ \E pi \in [ 1..Len(prices_dict) -> 1..Len(prices_dict) ] :
          /\ Len(ordered_stores) = Len(prices_dict)
          /\ \A i, j \in 1..Len(prices_dict) : i # j => pi[i] # pi[j]
          /\ \A i \in 1..Len(prices_dict) :
                /\ ordered_stores[i].store = normalize_store_name(prices_dict[pi[i]].key)
                /\ ordered_stores[i].link = prices_dict[pi[i]].link
          /\ \A i, j \in 1..Len(prices_dict) :
                i < j => \/ priority_index(ordered_stores[i].store)
                              < priority_index(ordered_stores[j].store)
                         \/ /\ priority_index(ordered_stores[i].store)
                                 = priority_index(ordered_stores[j].store)
                            /\ pi[i] < pi[j]
    /\ \A i \in 1..Len(log) :
          log[i].op = "fetch"
          => /\ \A j \in 1..(i - 1) : log[j].op = "fetch" => log[j].pos < log[i].pos
             /\ \A k \in 1..(log[i].pos - 1) :
                    IsHttp(ordered_stores[k].link)
                    => \E j \in 1..(i - 1) : log[j].op = "fetch" /\ log[j].pos = k
             /\ i < Len(log) => log[i + 1].op = "fetched" /\ log[i + 1].pos = log[i].pos
             /\ i = Len(log) => pc \in {"fetch", "strategy", "p1_after"}
    /\ (RowOver /\ row_result.status = "success")
       => \E i \in 1..Len(log) :
             /\ log[i].op = "extract"
             /\ log[i].store = row_result.store_used
             /\ log[i].score = row_result.score
             /\ \A k \in 1..(log[i].pos - 1) :
                    IsHttp(ordered_stores[k].link)
                    => /\ \E j \in 1..(i - 1) : log[j].op = "fetch" /\ log[j].pos = k
                       /\ \A j \in 1..Len(log) :
                              (log[j].op = "extract" /\ log[j].pos = k)
                              => log[j].score < EarlyStopScore

\* A row whose dict lists an unlisted store before a listed one: the listed
\* store was fetched first and scored below 50, and the row returned the
\* unlisted store's outcome.
PriorityOrderWitness ==
    /\ mode = "csv"
    /\ pc = "next_row"
    /\ Len(prices_dict) = 2
    /\ priority_index(normalize_store_name(prices_dict[1].key))
         > priority_index(normalize_store_name(prices_dict[2].key))
    /\ row_result.status = "success"
    /\ row_result.store_used = ordered_stores[2].store
    /\ \E i \in 1..Len(log) :
          log[i].op = "extract" /\ log[i].pos = 1 /\ log[i].score >= 0

\* C5: the row's result is a success with the highest score among the
\* success outcomes produced for the row, and it is failed only if no
\* store of the row produced a success outcome.
BestIsMaxOfProduced ==
    (mode = "csv" /\ RowOver /\ prices_dict # <<>>)
    => LET produced == { log[i].score : i \in { j \in 1..Len(log) :
                                                   log[j].op = "extract" /\ log[j].score >= 0 } }
       IN  IF produced = {}
           THEN row_result.status = "failed"
           ELSE row_result.status = "success" /\ row_result.score = SetMax(produced)

\* The flat records emitted for the row being processed.
CurrentFlat == SelectSeq(flat_export_rows, LAMBDA r : r.product_code = rows_read)

\* C6: when a row is over, the flat output holds exactly one record per
\* store link of the row.
OneFlatRecordPerLink ==
    (mode = "db" /\ RowOver)
    => /\ Len(CurrentFlat) = Len(prices_dict)
       /\ \A k \in 1..Len(prices_dict) :
              \E i \in 1..Len(CurrentFlat) : CurrentFlat[i].Store_link = prices_dict[k].link

\* C7: every flat record of the row carries the joined breadcrumbs of its
\* store if that store's outcome has status success (an extractor produced
\* them), and the literal FAILED for every other status.
AisleIffSuccess ==
    /\ CurrentFlat # <<>> => Len(CurrentFlat) = Len(all_results)
    /\ \A i \in 1..Len(CurrentFlat) :
          \E k \in 1..Len(all_results) :
              /\ all_results[k][1] = CurrentFlat[i].Store
              /\ LET r == all_results[k][2]
                 IN  IF r.status = "success"
                     THEN /\ CurrentFlat[i].aisle = r.aisle
                          /\ r.aisle # <<>>
                          /\ r.aisle # << "FAILED" >>
                          /\ \E j \in 1..Len(log) :
                                /\ log[j].op = "extract"
                                /\ log[j].store = CurrentFlat[i].Store
                                /\ log[j].score = r.score
                     ELSE CurrentFlat[i].aisle = << "FAILED" >>
    /\ \A i \in 1..Len(flat_export_rows) :
          flat_export_rows[i].aisle # <<>>

\* A row was emitted with one record carrying breadcrumbs and one FAILED.
AisleWitness ==
    /\ RowOver
    /\ \E i, j \in 1..Len(CurrentFlat) :
          /\ CurrentFlat[i].aisle = << "FAILED" >>
          /\ CurrentFlat[j].aisle # << "FAILED" >>
          /\ \E k \in 1..Len(all_results) :
                all_results[k][1] = CurrentFlat[i].Store
                /\ all_results[k][2].status = "no_breadcrumbs"

\* The history entry of the fetch (or rendering) whose body the extractor
\* call at position i was given.
FetchOf(i) ==
    /\ i > 1
    /\ log[i - 1].op \in {"fetched", "rendered"}
    /\ log[i - 1].pos = log[i].pos
    /\ log[i - 1].store = log[i].store
    /\ log[i - 1].len = log[i].len

RowStores == { normalize_store_name(prices_dict[k].key) : k \in 1..Len(prices_dict) }

CacheAnswersFirst ==
    [][ /\ \A p \in SESSION_CACHE : p \in SESSION_CACHE'
        /\ \A p, q \in SESSION_CACHE' : p[1] = q[1] => p = q
        /\ (pc = "fetch" /\ InDict(SESSION_CACHE, f.url))
           => /\ html' = DictGet(SESSION_CACHE, f.url)
              /\ pc' = f.ret
              /\ last_request_time' = last_request_time
              /\ clock' = clock
              /\ blocked_stores' = blocked_stores
        /\ (pc \in {"fetch", "strategy"} /\ pc' \notin {"fetch", "strategy"})
           => << f.url, html' >> \in SESSION_CACHE'
      ]_vars

\* The second row's fetch has just returned the negative entry: the run
\* made one uncached fetch only (clock = 2), in an earlier row (it recorded
\* a blocked store, and none was recorded in this row).
CacheWitness ==
    /\ rows_read = 2
    /\ pc \in {"p1_after", "ea_after"}
    /\ clock = 2
    /\ html = NoBody
    /\ blocked_stores # {}
    /\ row_blocked = {}
    /\ << ordered_stores[idx].link, NoBody >> \in SESSION_CACHE

\* Every cache entry of this state is an entry of the next one.
CacheStableStep == \A p \in SESSION_CACHE : p \in SESSION_CACHE'

\* Of two finished calls one sent no request, or both returned the same.
SameOutcomeOrOneRequester ==
    \A t, u \in 1..NumCallers :
        (t # u /\ callers[t].pc = "done" /\ callers[u].pc = "done")
        => \/ callers[t].sent = 0
           \/ callers[u].sent = 0
           \/ callers[t].result = callers[u].result

\* C11: for concurrent calls of fetch on one URL, under every interleaving
\* only one of them performs network requests or both deliver the same
\* result, and a cache entry, once written, is never overwritten with a
\* different value.
ConcurrentFetchStable == [][CacheStableStep /\ SameOutcomeOrOneRequester']_vars

\* C12: once quota_exhausted is set (daily limit reached or status 422) it
\* is never cleared, and every later call of fetch_with_zenrows returns
\* None without sending a request.
QuotaExhaustedIsFinal ==
    [][ quota_exhausted =>
          /\ quota_exhausted'
          /\ (zen_last' # zen_last => ~ zen_last'.sent /\ zen_last'.body = NoBody) ]_vars

\* The renderer was called with the flag already set, the flag having been
\* set by the daily limit.
QuotaWitness ==
    /\ quota_exhausted
    /\ zen_last.exhausted_before
    /\ current_usage >= ZENROWS_daily_limit

\* A step in which get_working_proxy returned.
Acquired == lease'.seq # lease.seq

\* C13: get_working_proxy never returns a proxy that is cooling (failures
\* >= max_failures and last failure less than cooling_period ago), and it
\* returns None exactly when the pool is empty or every proxy is cooling.
NeverReturnsCoolingProxy ==
    [][ Acquired =>
          LET cooling(i) == /\ failure_count[i] >= 5
                            /\ clock - last_failure_time[i] < 600
          IN  /\ lease'.proxy # -1 => (lease'.proxy \in ProxyIds /\ ~ cooling(lease'.proxy))
              /\ lease'.proxy = -1 <=> \A i \in ProxyIds : cooling(i) ]_vars

\* Proxy 0 is cooling and proxy 1 has just been handed out.
CoolingWitness ==
    /\ proxy_configs = 2
    /\ failure_count[0] >= 5 /\ clock - last_failure_time[0] < 600
    /\ lease.proxy = 1
    /\ failure_count[1] = 0 /\ success_count[1] = 0

\* C14: a proxy whose failure count reached max_failures is selectable
\* again once cooling_period has passed since its last reported failure,
\* and get_working_proxy then resets its failure counter to 0.
CooledProxyIsSelectableAndReset ==
    [][ Acquired =>
          \A i \in ProxyIds :
              (failure_count[i] >= 5 /\ clock - last_failure_time[i] >= 600)
              => (failure_count'[i] = 0 /\ i \in lease'.available /\ lease'.proxy # -1) ]_vars

\* A proxy that had failed max_failures times was reset and handed out.
CooledWitness ==
    \E i \in ProxyIds :
        /\ failure_count[i] = 0
        /\ last_failure_time[i] > 0
        /\ lease.proxy = i

\* C15: among the proxies that are not cooling, get_working_proxy returns
\* one with the highest success rate successes / (successes + failures),
\* and of several with the highest rate the one with the lowest failure
\* count.  A proxy without any request has rate 1.
BestRateThenFewestFailures ==
    [][ (Acquired /\ lease'.proxy # -1) =>
          LET b == lease'.proxy
              rate(i) == Rate(success_count[i], failure_count'[i])
          IN  \A i \in lease'.available :
                  /\ ~ RateGreater(rate(i), rate(b))
                  /\ (~ RateGreater(rate(b), rate(i))) => failure_count'[b] <= failure_count'[i] ]_vars

\* C16: before every outbound request of a fetch call (each strategy
\* invocation and each retry, not only the first request) the fetcher
\* waits in _apply_rate_limit and updates last_request_time: a call has
\* never sent more requests than it has made rate-limit waits.
RateLimitBeforeEveryRequest ==
    \A t \in 1..NumCallers : callers[t].sent <= callers[t].limited

\* C17: a store's session is replaced after it has served
\* session_refresh_interval (10) requests: no session object is returned
\* more than 10 times, and after every call of get_store_session the
\* store's request_count is between 1 and 10.
SessionServesAtMostInterval ==
    /\ \A p \in served : p[2] <= 10
    /\ \A p \in request_count : 1 <= p[2] /\ p[2] <= 10
    /\ \A store_norm \in Stores :
          InDict(store_sessions, store_norm)
          => InDict(request_count, store_norm) /\ InDict(served, store_norm)

\* A store's first session has served 10 requests and was replaced.
SessionReplacedWitness ==
    \E store_norm \in Stores :
        /\ <<store_norm, 2>> \in store_sessions
        /\ <<store_norm, 1>> \in request_count
        /\ <<store_norm, 1>> \in served

\* C18: for every list of raw breadcrumb strings and every store,
\* normalize_breadcrumbs returns a list of at most 6 elements, without
\* two equal elements and without an empty string.
NormalizedIsShortDistinctNonEmpty ==
    crumb_run.stage # "raw" =>
        /\ Len(crumb_run.cleaned) <= 6
        /\ \A i, j \in 1..Len(crumb_run.cleaned) :
              i # j => crumb_run.cleaned[i] # crumb_run.cleaned[j]
        /\ \A i \in 1..Len(crumb_run.cleaned) : crumb_run.cleaned[i] # ""

\* A raw list with a repeated text, an empty text and more than six
\* texts worth keeping was cut to six.
NormalizedWitness ==
    /\ crumb_run.stage = "cleaned"
    /\ crumb_run.raw = LongCrumbs
    /\ crumb_run.cleaned = << "Home", "Toys", "Fresh Food", "Dairy", "Milk", "Products" >>

\* C19: normalize_breadcrumbs is idempotent:
\* normalize(normalize(L, r), r) = normalize(L, r).
NormalizeIdempotent ==
    crumb_run.stage \in {"again", "scored"} => crumb_run.again = crumb_run.cleaned

\* The first pass changed the list (strip, collapse, title, dropped
\* texts) and the second pass was applied to its result.
IdempotentWitness ==
    /\ crumb_run.stage = "again"
    /\ crumb_run.raw = << "home", " Toys ", "Toys", "Fresh   Food" >>
    /\ crumb_run.cleaned = << "Home", "Toys", "Fresh Food" >>
    /\ crumb_run.cleaned # crumb_run.raw

\* C20: every success outcome a dispatcher produces has an integer score
\* in 0..100; score_breadcrumb_quality clamps its result to [0, 100].
SuccessScoreInRange ==
    /\ single.result.success => single.result.score \in 0..100
    /\ best_result.status = "success" => best_result.score \in 0..100
    /\ row_result.status = "success" => row_result.score \in 0..100

\* The single-store dispatcher returned a success whose score was cut
\* down to 100.
ClampedHighWitness ==
    /\ single.stage = "done"
    /\ single.result.success
    /\ single.result.breadcrumbs = << "Fresh Food", "Dairy", "Milk" >>
    /\ single.result.score = 100

(***************************************************************************)
(* C21: no exception crosses the row boundary.  When fetch, parsing or     *)
(* extraction raises for one store, in Phase 1 or in Phase 2, the          *)
(* dispatcher catches it and goes on: the processing of a row never ends   *)
(* in an exception while it is handling a store that has a product URL.    *)
(***************************************************************************)
HandlingStoreWithUrl ==
    /\ mode = "csv"
    /\ pc \in {"p1_after", "phase2"}
    /\ idx <= Len(ordered_stores)
    /\ IsHttp(ordered_stores[idx].link)

ExceptionStaysInsideRow ==
    [][ (HandlingStoreWithUrl /\ pc' = "next_row") => row_result' # ExceptionResult ]_vars

(***************************************************************************)
(* C22: whenever a Phase 1 strategy of fetch, the store-specific advanced  *)
(* strategies and the browser included, gets an HTTP 403, 429 or 503       *)
(* response, the store is added to blocked_stores and fetch goes on with   *)
(* the next strategy: it does not return a body for that response.         *)
(***************************************************************************)
BlockStatusMarksStore ==
    fetch_hist.resp.kind = "status403"
    => /\ single.store_norm \in blocked_stores
       /\ pc = "strategy" \/ html = NoBody

(***************************************************************************)
(* C23: in Phase 1 the body a strategy returned is accepted (cached and    *)
(* returned by fetch) if and only if it has at least MinBodyLen (500)      *)
(* characters and none of the block indicators of line 2509 in its first   *)
(* 2000 characters; a clean body of exactly 500 characters is accepted,    *)
(* as the dispatcher's own length test takes it to be.                     *)
(***************************************************************************)
LastReturned == StrategyReturn(fetch_hist.method, fetch_hist.resp)

LastAccepted ==
    /\ pc # "strategy"
    /\ html = LastReturned
    /\ << [ kind |-> "https", host |-> single.store_norm ], LastReturned >> \in SESSION_CACHE

AcceptedIffLongAndClean ==
    (fetch_hist.method # "None" /\ Truthy(LastReturned))
    => (LastAccepted <=> (ValidBody(LastReturned) /\ ~ LastReturned.ind))

(***************************************************************************)
(* C24: when the body fetched for a store's URL is missing or shorter      *)
(* than MinBodyLen, the store's entry in all_results has status            *)
(* no_breadcrumbs if the store supports URL inference and status           *)
(* fetch_failed otherwise.                                                 *)
(* As the code has it: the entry is fetch_failed with score 0 and no       *)
(* aisle, unless the store supports URL inference and the inference gave   *)
(* breadcrumbs, and then it is success with that aisle; it is never        *)
(* no_breadcrumbs.                                                         *)
(***************************************************************************)
\* all_results[store_norm], for a dict kept in insertion order.
InResults(results, store_norm) == \E k \in 1..Len(results) : results[k][1] = store_norm
ResultOf(results, store_norm) ==
    results[CHOOSE k \in 1..Len(results) : results[k][1] = store_norm][2]

SupportsUrlInference(store_norm) == store_norm \in {"superdrug", "savers", "aldi", "amazon"}

\* The dispatcher is about to handle a body that is missing or too short.
ShortBodyReturned == mode = "db" /\ pc = "ea_after" /\ ~ ValidBody(html)

HandledStore == normalize_store_name(ordered_stores[idx].key)

ShortBodyNoBreadcrumbsOrFetchFailed ==
    [][ ShortBodyReturned
        => ResultOf(all_results', HandledStore).status =
             (IF SupportsUrlInference(HandledStore) THEN "no_breadcrumbs" ELSE "fetch_failed")
      ]_vars

ShortBodyFetchFailedOrInferred ==
    [][ ShortBodyReturned
        => LET r == ResultOf(all_results', HandledStore)
           IN  \/ r.status = "fetch_failed" /\ r.score = 0 /\ r.aisle = <<>>
               \/ /\ SupportsUrlInference(HandledStore)
                  /\ r.status = "success" /\ r.aisle # <<>>
      ]_vars

\* A row in which one store's short body ended as fetch_failed and another
\* store's short body ended as a success of the URL inference.
ShortBodyWitness ==
    /\ mode = "db"
    /\ \E i, j \in 1..Len(log) :
         /\ log[i].op = "fetched" /\ log[i].len < MinBodyLen
         /\ log[j].op = "fetched" /\ log[j].len < MinBodyLen
         /\ InResults(all_results, log[i].store)
         /\ InResults(all_results, log[j].store)
         /\ ResultOf(all_results, log[i].store).status = "fetch_failed"
         /\ ResultOf(all_results, log[j].store).status = "success"

(***************************************************************************)
(* C25: if every response obtained for a store's URL had a block           *)
(* indicator, then after the dispatcher has handled the store its entry    *)
(* has status fetch_failed and score 0, the store is in blocked_stores,    *)
(* and no extractor was run on the blocked body.                           *)
(***************************************************************************)
EveryResponseBlocked ==
    /\ mode = "db"
    /\ pc = "ea_after"
    /\ fetch_hist.method # "None"
    /\ fetch_hist.all_block

BlockedStoreIsFetchFailed ==
    [][ EveryResponseBlocked
        => /\ ResultOf(all_results', HandledStore).status = "fetch_failed"
           /\ ResultOf(all_results', HandledStore).score = 0
           /\ HandledStore \in blocked_stores
           /\ \A i \in (Len(log) + 1)..Len(log') :
                  log'[i].op = "extract" => log'[i].len < 0
      ]_vars

(***************************************************************************)
(* C26: after normalization no element of the list is a generic            *)
(* navigation token (home, homepage, shop, browse, all, categories,        *)
(* departments), except that "Home" may be the first element.              *)
(***************************************************************************)
GenericNavigationTokens ==
    {"home", "homepage", "shop", "browse", "all", "categories", "departments"}

Normalized == crumb_run.stage \in {"cleaned", "again", "scored"}

OnlyHomeFirstIsGeneric ==
    Normalized
    => \A i \in 1..Len(crumb_run.cleaned) :
          Lower(crumb_run.cleaned[i]) \in GenericNavigationTokens
          => (i = 1 /\ crumb_run.cleaned[i] = "Home")

(***************************************************************************)
(* C27: the normalizer drops an item that contains the store's name        *)
(* (whatever the case of its letters) when the item is not the first       *)
(* element, and keeps such an item when it is the first element.           *)
(* As the code has it: the item is dropped at every position, the first    *)
(* included, so that no element of the result contains the store's name.   *)
(***************************************************************************)
HasStoreName(c) == Contains(crumb_run.store, c)

\* The first raw text passes every other filter and holds the store's name.
FirstHasStoreName ==
    /\ crumb_run.raw # <<>>
    /\ is_valid_category_text(crumb_run.raw[1])
    /\ HasStoreName(crumb_run.raw[1])

StoreNameKeptOnlyFirst ==
    Normalized
    => /\ \A i \in 2..Len(crumb_run.cleaned) : ~ HasStoreName(crumb_run.cleaned[i])
       /\ FirstHasStoreName
          => (crumb_run.cleaned # <<>> /\ crumb_run.cleaned[1] = Strip(crumb_run.raw[1]))

StoreNameDroppedEverywhere ==
    Normalized
    => \A i \in 1..Len(crumb_run.cleaned) : ~ HasStoreName(crumb_run.cleaned[i])

\* A list that starts with the store's name, alone and inside a longer
\* text, and of which something else is left.
StoreNameFirstWitness ==
    /\ Normalized
    /\ crumb_run.store = "aldi"
    /\ crumb_run.raw = << "Aldi Toys", "Toys" >>
    /\ crumb_run.cleaned = << "Toys" >>

(***************************************************************************)
(* C28: extract_aisles_from_all_stores never ends early.  When a row is    *)
(* over, every store of the row that is not in PROBLEMATIC_STORES and has  *)
(* an http(s) link was fetched, whatever the earlier stores scored, and    *)
(* all_results holds exactly one entry for each distinct normalized store  *)
(* of the row.                                                             *)
(***************************************************************************)
FetchedInRow(store_norm) ==
    \E i \in 1..Len(log) : log[i].op = "fetch" /\ log[i].store = store_norm

AllStoresCovered ==
    (mode = "db" /\ RowOver /\ prices_dict # <<>>)
    => /\ \A k \in 1..Len(prices_dict) :
            LET store_norm == normalize_store_name(prices_dict[k].key)
            IN  (store_norm \notin PROBLEMATIC_STORES /\ IsHttp(prices_dict[k].link))
                => FetchedInRow(store_norm)
       /\ { all_results[k][1] : k \in 1..Len(all_results) } = RowStores
       /\ Len(all_results) = Cardinality(RowStores)

\* The same for rows in which every store_link is a string.
AllStoresCoveredStringLinks ==
    (\A k \in 1..Len(prices_dict) : prices_dict[k].link.kind # "nonstr") => AllStoresCovered

(***************************************************************************)
(* C29: for an uncached URL fetch invokes the strategies of                *)
(* phase1_methods in list order, for at most PHASE1_max_attempts rounds;   *)
(* it stops at the first body it accepts (no invocation follows); a        *)
(* blocked response adds the store to blocked_stores and the loop goes on  *)
(* with the next strategy; when fetch returns None every strategy of the   *)
(* list was invoked exactly PHASE1_max_attempts times; and fetch always    *)
(* returns.                                                                *)
(***************************************************************************)
\* The position in the list that is due after the invocations counted so far.
NextInOrder(count) ==
    IF \E i \in DOMAIN count : count[i] < count[1]
    THEN CHOOSE i \in DOMAIN count :
            /\ count[i] < count[1]
            /\ \A j \in DOMAIN count : count[j] < count[1] => i <= j
    ELSE 1

InvokedInOrder ==
    LET due == NextInOrder(fetch_hist.count)
    IN  /\ fetch_hist'.count = [ fetch_hist.count EXCEPT ![due] = @ + 1 ]
        /\ fetch_hist'.method = phase1_methods(f.store)[due]
        /\ fetch_hist'.count[due] <= PHASE1_max_attempts

GotAccepted ==
    LET got == StrategyReturn(fetch_hist'.method, fetch_hist'.resp)
    IN  FetchLongEnough(got) /\ ~ got.ind

StopsAtAccepted ==
    GotAccepted
    => /\ pc' # "strategy"
       /\ html' = StrategyReturn(fetch_hist'.method, fetch_hist'.resp)

FetchFailed == pc' # "strategy" /\ html' = NoBody

BlockedMovesOn ==
    HasBlockIndicator(fetch_hist'.resp) => (pc' = "strategy" \/ FetchFailed)

BlockedMarks ==
    HasBlockIndicator(fetch_hist'.resp) => f.store \in blocked_stores'

FailureAfterAllRounds ==
    FetchFailed
    => \A i \in DOMAIN fetch_hist'.count : fetch_hist'.count[i] = PHASE1_max_attempts

FetchCascade ==
    [][ pc = "strategy"
        => /\ InvokedInOrder
           /\ StopsAtAccepted
           /\ BlockedMovesOn
           /\ BlockedMarks
           /\ FailureAfterAllRounds ]_vars

\* The cascade without the handling of blocked responses.
FetchCascadeOrder ==
    [][ pc = "strategy"
        => /\ InvokedInOrder
           /\ StopsAtAccepted
           /\ FailureAfterAllRounds ]_vars

\* A call of fetch returns.
FetchTerminates == (pc \in {"fetch", "strategy"}) ~> (pc \notin {"fetch", "strategy"})

(***************************************************************************)
(* C30: for a store without an advanced strategy the Phase 1 list is       *)
(* [plain HTTP client, TLS-emulating client], i.e. [Requests,              *)
(* CloudScraper], and in every attempt Requests is invoked before          *)
(* CloudScraper; the browser strategy is in the list only for a store of   *)
(* SELENIUM_PROTECTED_STORES, and then as the last element only; for a     *)
(* store of skip_selenium_stores no browser strategy is ever invoked.      *)
(* As the code has it: the two clients come in the order [CloudScraper,    *)
(* Requests]; the browser is appended last for the stores of               *)
(* SELENIUM_PROTECTED_STORES outside skip_selenium_stores and is also the  *)
(* second strategy of the four stores with an advanced strategy.           *)
(***************************************************************************)
BrowserStrategies ==
    {"Selenium", "TescoSelenium", "OcadoSelenium", "MorrisonsSelenium", "AsdaSelenium"}

AdvancedStrategyStores == {"tesco", "ocado", "morrisons", "asda"}

IsClient(method) == method \notin BrowserStrategies

\* fetch_hist belongs to a call of fetch that built the list for the store.
HistOfList ==
    /\ fetch_hist.method # "None"
    /\ DOMAIN fetch_hist.count = DOMAIN phase1_methods(single.store_norm)

\* Strategy a is at position i, b at position i + 1, and b was never
\* invoked more often than a.
InvokedBefore(a, b, i) ==
    LET methods == phase1_methods(single.store_norm)
    IN  /\ i + 1 <= Len(methods)
        /\ methods[i] = a
        /\ methods[i + 1] = b
        /\ fetch_hist.count[i + 1] <= fetch_hist.count[i]
        /\ fetch_hist.count[i] <= fetch_hist.count[i + 1] + 1

BrowserNeverInvokedForSkipped ==
    single.store_norm \in skip_selenium_stores
    => /\ fetch_hist.method \notin BrowserStrategies
       /\ \A i \in DOMAIN fetch_hist.count :
             phase1_methods(single.store_norm)[i] \in BrowserStrategies
             => fetch_hist.count[i] = 0

TwoProxyAttemptsFailed ==
    /\ req.leased # -1
    /\ \/ Len(req.sent) = 3
       \/ Len(req.sent) = 2 /\ req.out = "transport"

RequestsRetriesThenDirect ==
    (req.stage # "idle")
    => /\ Len(req.sent) <= max_retries
       /\ (req.out = "transport" /\ Len(req.sent) < max_retries)
          => (req.stage = "loop" /\ req.retry = Len(req.sent))
       /\ TwoProxyAttemptsFailed
          => /\ req.sent[1] = "proxy" /\ req.sent[2] = "proxy"
             /\ req.proxy_dict = -1
             /\ req.reported = 1
             /\ failure_count[req.leased] = req.failures_before + 1
             /\ Len(req.sent) = 3 => req.sent[3] = "direct"

\* The third request of a call that began with a proxy has been sent.
ThirdAttemptWitness ==
    /\ req.leased # -1
    /\ req.sent = << "proxy", "proxy", "direct" >>
    /\ req.out = "transport"
    /\ req.stage = "done"

(***************************************************************************)
(* C32: concurrent calls of get_store_session for one store behave as if   *)
(* insertion and rotation ran under a mutex: when no call is in progress,  *)
(* request_count holds every increment of the calls made since the last    *)
(* rotation; the calls made so far created at most one session per         *)
(* rotation; and no session object was returned more than                  *)
(* session_refresh_interval times.                                         *)
(***************************************************************************)
NoSessionCallInProgress ==
    \A t \in DOMAIN session_callers : session_callers[t].pc = "idle"

\* request_count and the number of sessions after n calls made one after
\* the other.
CountAfterCalls(n) == IF n = 0 THEN 0 ELSE ((n - 1) % session_refresh_interval) + 1
SessionsAfterCalls(n) == (n + session_refresh_interval - 1) \div session_refresh_interval

SessionMapUpdatesAreExclusive ==
    (session_callers # NoSessionCallers)
    => /\ NoSessionCallInProgress => CountOf(SessionStore) = CountAfterCalls(session_hist.calls)
       /\ Len(session_hist.returned) <= SessionsAfterCalls(session_hist.calls)
       /\ \A i \in DOMAIN session_hist.returned :
             session_hist.returned[i] <= session_refresh_interval

\* The three parts on their own.
NoIncrementLost ==
    (session_callers # NoSessionCallers /\ NoSessionCallInProgress)
    => CountOf(SessionStore) = CountAfterCalls(session_hist.calls)
OneSessionPerRotation ==
    Len(session_hist.returned) <= SessionsAfterCalls(session_hist.calls)
NoSessionServesMoreThanInterval ==
    \A i \in DOMAIN session_hist.returned :
        session_hist.returned[i] <= session_refresh_interval
NoSessionCallRaises == session_hist.raised = 0

(***************************************************************************)
(* C33: every success outcome a dispatcher returns, from the Phase 1       *)
(* extraction, from the URL-based fallback on a short body or from Phase   *)
(* 2, carries breadcrumbs that went through normalize_breadcrumbs: at      *)
(* most 6 levels, no level twice and no empty level.                       *)
(***************************************************************************)
\* The breadcrumbs of a category made by ' > '.join.
Levels(category) == [ i \in 1..((Len(category) + 1) \div 2) |-> category[2 * i - 1] ]

ShortDistinctNonEmpty(crumbs) ==
    /\ Len(crumbs) <= 6
    /\ \A i, j \in 1..Len(crumbs) : i # j => crumbs[i] # crumbs[j]
    /\ \A i \in 1..Len(crumbs) : crumbs[i] # ""

SuccessOutcomeIsNormalized ==
    /\ row_result.status = "success" => ShortDistinctNonEmpty(Levels(row_result.category))
    /\ best_result.status = "success" => ShortDistinctNonEmpty(Levels(best_result.category))

\* The same for the outcomes of the Phase 1 extraction alone.
Phase1OutcomeIsNormalized ==
    (row_result.status = "success" /\ row_result.method = "extract")
    => ShortDistinctNonEmpty(Levels(row_result.category))

(***************************************************************************)
(* C34: process_row_with_priority_system returns from inside the Phase 1   *)
(* loop, before every store of the row was attempted, only with a success  *)
(* outcome of score >= 50; an outcome with a score below 50 is returned    *)
(* only when every store with an http(s) link was fetched and the Phase 2  *)
(* decision of line 5178 was taken.                                        *)
(***************************************************************************)
\* The step is a return of process_row_with_priority_system.
DispatcherReturns ==
    /\ mode = "csv"
    /\ pc \in {"phase1", "p1_after", "phase2"}
    /\ pc' = "next_row"
    /\ row_result'.method # "exception"

EveryLinkAttempted ==
    \A i \in 1..Len(ordered_stores) :
        IsHttp(ordered_stores[i].link)
        => \E k \in 1..Len(log) : log[k].op = "fetch" /\ log[k].pos = i

BelowThresholdOnlyAfterAllStores ==
    [][ DispatcherReturns
        => \/ row_result'.status = "success" /\ row_result'.score >= EarlyStopScore
           \/ pc # "p1_after" /\ EveryLinkAttempted ]_vars

\* The same for the returns that are not made by the URL-based fallback.
BelowThresholdOnlyAfterAllStoresButFallback ==
    [][ (DispatcherReturns /\ row_result'.method # "url_fallback")
        => \/ row_result'.status = "success" /\ row_result'.score >= EarlyStopScore
           \/ pc # "p1_after" /\ EveryLinkAttempted ]_vars

(***************************************************************************)
(* C35: the list fetch builds for a store holds each strategy function at  *)
(* most once, so that in one round of attempts no function, the browser    *)
(* in particular, is invoked twice for the URL: at any time a function     *)
(* has been invoked at most as often as rounds have begun.                 *)
(***************************************************************************)
\* The method of SuperEnhancedFetcher behind a name of the list.
StrategyFunction(method) ==
    CASE method \in BrowserStrategies -> "fetch_with_selenium"
      [] method = "CloudScraper" -> "fetch_with_cloudscraper"
      [] method = "Requests" -> "fetch_with_requests"
      [] method = "TescoAdvanced" -> "fetch_tesco_advanced"
      [] method = "OcadoUltra" -> "fetch_ocado_ultra_advanced"
      [] method = "MorrisonsAdvanced" -> "fetch_morrisons_advanced"
      [] method = "AsdaAdvanced" -> "fetch_asda_advanced"

RECURSIVE InvocationsOf(_, _, _, _)
InvocationsOf(fn, methods, count, n) ==
    IF n = 0 THEN 0
    ELSE InvocationsOf(fn, methods, count, n - 1)
         + (IF StrategyFunction(methods[n]) = fn THEN count[n] ELSE 0)

EachFunctionOncePerRound ==
    HistOfList
    => LET methods == phase1_methods(single.store_norm)
       IN  /\ \A i, j \in DOMAIN methods :
                 i # j => StrategyFunction(methods[i]) # StrategyFunction(methods[j])
           /\ \A i \in DOMAIN methods :
                 InvocationsOf(StrategyFunction(methods[i]), methods, fetch_hist.count,
                               Len(methods)) <= fetch_hist.count[1]

\* The same for the stores without an advanced strategy.
EachFunctionOncePerRoundPlainStores ==
    single.store_norm \notin AdvancedStrategyStores => EachFunctionOncePerRound


(***************************************************************************)
(* C36: the usage counter of the external renderer never exceeds the daily *)
(* limit, and the number of requests sent to the renderer during a run     *)
(* never exceeds the daily limit, requests that ended in an exception      *)
(* included.  The counter is advanced only after a response arrived (line  *)
(* 2396), so a request that timed out was sent and is nowhere counted.     *)
(***************************************************************************)
RequestsSentToRenderer == current_usage + zen_last.unanswered

\* C36 (as stated): neither the counter nor the requests sent pass the limit
RendererNeverPassesDailyLimit ==
    /\ current_usage <= ZENROWS_daily_limit
    /\ RequestsSentToRenderer <= ZENROWS_daily_limit

\* the half of C36 that the code keeps: the counter stays within the limit
UsageCounterWithinDailyLimit == current_usage <= ZENROWS_daily_limit


(***************************************************************************)
(* C37: in the conversion failover a key is marked exhausted only after a  *)
(* 401, 402 or 403 response to a request made with that same key; the      *)
(* exhausted set only grows, an exhausted key is never used for a later    *)
(* request of the run, and has_available_keys is false exactly when every  *)
(* key is exhausted.                                                       *)
(***************************************************************************)
FailoverRequestSent == key_manager'.sent # key_manager.sent

AvailabilityIsExact(exhausted_keys) ==
    ~ has_available_keys(vineet_API_KEYS, exhausted_keys)
        <=> KeyIndices(vineet_API_KEYS) \subseteq exhausted_keys

\* C37: marking follows a 401/402/403 for the same key, the exhausted set
\* grows only, no request uses an exhausted key, availability is exact
FailoverKeyDiscipline ==
    [][ /\ key_manager.exhausted_keys \subseteq key_manager'.exhausted_keys
        /\ \A k \in key_manager'.exhausted_keys \ key_manager.exhausted_keys :
              /\ FailoverRequestSent
              /\ key_manager'.response \in {"401", "402", "403"}
              /\ key_manager'.api_key = vineet_API_KEYS[k + 1]
        /\ FailoverRequestSent =>
              \A k \in key_manager.exhausted_keys :
                  key_manager'.api_key # vineet_API_KEYS[k + 1]
        /\ AvailabilityIsExact(key_manager.exhausted_keys)
        /\ AvailabilityIsExact(key_manager'.exhausted_keys) ]_vars

\* a key was marked exhausted and a later request, made with another key,
\* was answered
FailoverWitness ==
    /\ key_manager.exhausted_keys # {}
    /\ key_manager.response = "200"
    /\ key_manager.conversion_status = "Success"


(***************************************************************************)
(* C38: get_conversion terminates for every input and every behaviour of   *)
(* the remote API: for each row the loop ends after finitely many          *)
(* requests, the row converted, recorded as an error, or all keys          *)
(* exhausted; and the key index never decreases.  A request that raises    *)
(* changes neither success nor key_index (lines 70-72), so the loop goes   *)
(* round for as long as the requests raise.                                *)
(***************************************************************************)
ConversionOver == conversion.stage = "done"

KeyIndexNeverDecreases == [][conversion'.key_index >= conversion.key_index]_vars

\* C38 (as stated): the run ends, and the key index never decreases
GetConversionTerminates ==
    /\ <>ConversionOver
    /\ KeyIndexNeverDecreases

\* what the code keeps: a run that does not end is one whose requests raise
\* from some point on
GetConversionTerminatesUnlessRequestsRaise ==
    \/ <>ConversionOver
    \/ <>[](conversion.stage = "loop" /\ conversion.response = "exception")


(***************************************************************************)
(* C39: process_single_url called without a store name on a URL that       *)
(* matches no known retailer returns an outcome with success false, score  *)
(* 0 and method store_detection_failed, without fetching anything and      *)
(* without raising.  The branch that builds this outcome (5423-5433) needs *)
(* detect_store_from_url to return a false value; its last line names      *)
(* best_result instead and raises.                                         *)
(***************************************************************************)
UnknownRetailerCallOver ==
    /\ url_run.stage = "done"
    /\ url_run.store_name = "None"
    /\ MatchingPatterns(url_run.url) = {}

NothingFetched == ~ url_run.attempted /\ single = NoSingle /\ f = NoFetch

\* C39 (as stated): the call returns the store_detection_failed outcome,
\* nothing was fetched, nothing raised
UnknownRetailerFailsCleanly ==
    UnknownRetailerCallOver
    => /\ url_run.raised = "None"
       /\ ~ url_run.outcome.success
       /\ url_run.outcome.score = 0
       /\ url_run.outcome.method = "store_detection_failed"
       /\ NothingFetched

\* what the code keeps: nothing is fetched for such a URL
UnknownRetailerFetchesNothing == UnknownRetailerCallOver => NothingFetched

=============================================================================
